---- MODULE Spec2Model ----
(***************************************************************************)
(* A model of the blackbox container library: the ring-buffer queue        *)
(* (fifoBox), the stack (lifoBox), the swap-remove random pool             *)
(* (randomBox), the factory New, and the mutex wrapper concurrentBox.      *)
(*                                                                         *)
(* The element type T is int.  A Go slice is a sequence; Go index i is     *)
(* position i + 1 of the sequence.                                         *)
(***************************************************************************)
EXTENDS Integers, Sequences, FiniteSets, Bags, TLC

VARIABLES
    box,        \* the engine under test (a fifoBox, lifoBox or randomBox)
    res,        \* the last call on box by its single caller: [op, arg, item, err, idx]
    putLog,     \* items of the successful Puts since construction or the last Clean
    getLog,     \* items returned by the successful Gets since then
    mixed,      \* a Put succeeded after a successful Get (since construction or Clean)
    grows,      \* the queue's growth events: [n: all, wrapped: those that found head > 0]
    panicked,   \* a run-time panic (index out of range) ended the program
    oracle,     \* the outputs the generators have produced so far
    args,       \* the options New was called with (recorded in two-engine runs)
    twin,       \* a second engine, built with the same options (two-engine runs)
    res2,       \* the last call on twin
    getLog2,    \* items returned by twin's successful Gets
    mu,         \* concurrentBox.mu: TRUE while the mutex is locked
    pc,         \* where each goroutine stands in its wrapper call
    call,       \* the wrapper call each goroutine is making: [op, arg]
    ret,        \* what each goroutine's last wrapper call returned
    heap        \* the backing arrays that slices point into (runs with slice headers)

vars == <<box, res, putLog, getLog, mixed, grows, panicked, oracle, args,
          twin, res2, getLog2, mu, pc, call, ret, heap>>

----------------------------------------------------------------------------
(* Bounds of the model. *)

\* the element values offered to Put; 0 is the zero value of int
Vals == {0, 1}
\* Put is offered while fewer than MaxPuts items were put since the last Clean
MaxPuts == 4
\* the largest initial capacity requested from a constructor
MaxCap == 2
\* the largest maximum size requested from a constructor
MaxMaxSize == 3
\* in two-engine runs Put is offered while fewer than TwinPuts items were put
TwinPuts == 3
\* the goroutines calling the wrapper
Procs == {1, 2}
\* behind the wrapper Put is offered while fewer than ConcPuts items were put, and
\* a generator is asked for at most ConcDraws numbers
ConcPuts == 2
ConcDraws == 2
\* a generator is asked for at most MaxDraws numbers
MaxDraws == 3
\* the longest sequence of items handed to NewFrom
MaxData == 2
\* on engines built from data Put is offered while fewer than FromPuts items
\* were supplied or put
FromPuts == 3
\* and their generator is asked for at most FromDraws numbers
FromDraws == 2
\* the backing arrays that can be live at once in the runs with slice headers
MaxArrays == 4
\* in those runs Put is offered while the stack holds fewer than MemPuts items
MemPuts == 1
\* the capacities NewLIFO is called with and the slice literals of the caller
MemCaps == {0, 1}
MemDatas == {<<>>, <<0>>, <<1>>}
\* the seeds offered to WithSeed, and the clock readings time.Now().UnixNano()
Seeds == {1}
Times == {2, 3}

----------------------------------------------------------------------------
(* Program constants. *)

defaultInitialCapacity == 8
growthFactor == 2

StrategyRandom == 0
StrategyFIFO == 1
StrategyLIFO == 2

ErrNone == "nil"
ErrEmptyBlackBox == "blackbox is empty"
ErrBlackBoxFull == "blackbox is full"
\* a run-time panic: the call does not return
Panic == "panic: index out of range"

\* var zero T
zero == 0

----------------------------------------------------------------------------
(* Go slices. *)

Min(a, b) == IF a < b THEN a ELSE b

\* make([]T, n)
Make(n) == [i \in 1..n |-> zero]

\* s[lo:hi]
Slice(s, lo, hi) == SubSeq(s, lo + 1, hi)

\* copy(dst[at:], src): the slice dst after the copy
CopyAt(dst, at, src) ==
    LET n == Min(Len(dst) - at, Len(src))
    IN  [i \in 1..Len(dst) |-> IF i > at /\ i <= at + n THEN src[i - at] ELSE dst[i]]

\* the number of elements copy(dst[at:], src) copies
CopyN(dst, at, src) == Min(Len(dst) - at, Len(src))

\* what a call returns, with the receiver as the call leaves it
Result(b, item, err) == [box |-> b, item |-> item, err |-> err]

----------------------------------------------------------------------------
(* fifoBox: the ring-buffer queue. *)

NewFIFO(maxSize, capacity) ==
    [strategy |-> StrategyFIFO,
     items    |-> Make(capacity),
     head     |-> 0,
     tail     |-> 0,
     size     |-> 0,
     maxSize  |-> maxSize]

\* mutant of grow: the wrapped part b.items[:b.tail] is not copied
fifoGrowNoWrap(b) ==
    LET doubled     == Len(b.items) * growthFactor
        newCapacity == IF b.maxSize > 0 /\ doubled > b.maxSize THEN b.maxSize ELSE doubled
        newItems    == Make(newCapacity)
        copied      ==
            IF b.head < b.tail
            THEN CopyAt(newItems, 0, Slice(b.items, b.head, b.tail))
            ELSE CopyAt(newItems, 0, Slice(b.items, b.head, Len(b.items)))
    IN  [b EXCEPT !.head = 0, !.tail = b.size, !.items = copied]

\* mutant of grow: the part before tail is copied ahead of the part from head
fifoGrowTailFirst(b) ==
    LET doubled     == Len(b.items) * growthFactor
        newCapacity == IF b.maxSize > 0 /\ doubled > b.maxSize THEN b.maxSize ELSE doubled
        newItems    == Make(newCapacity)
        copied      ==
            IF b.head < b.tail
            THEN CopyAt(newItems, 0, Slice(b.items, b.head, b.tail))
            ELSE LET n == CopyN(newItems, 0, Slice(b.items, 0, b.tail))
                 IN  CopyAt(CopyAt(newItems, 0, Slice(b.items, 0, b.tail)),
                            n, Slice(b.items, b.head, Len(b.items)))
    IN  [b EXCEPT !.head = 0, !.tail = b.size, !.items = copied]

\* mutant of grow: the new capacity becomes the maximum size
fifoGrowSetsMaxSize(b) ==
    LET doubled     == Len(b.items) * growthFactor
        newCapacity == IF b.maxSize > 0 /\ doubled > b.maxSize THEN b.maxSize ELSE doubled
        newItems    == Make(newCapacity)
        copied      ==
            IF b.head < b.tail
            THEN CopyAt(newItems, 0, Slice(b.items, b.head, b.tail))
            ELSE LET n == CopyN(newItems, 0, Slice(b.items, b.head, Len(b.items)))
                 IN  CopyAt(CopyAt(newItems, 0, Slice(b.items, b.head, Len(b.items))),
                            n, Slice(b.items, 0, b.tail))
    IN  [b EXCEPT !.head = 0, !.tail = b.size, !.items = copied, !.maxSize = newCapacity]

fifoGrow(b) ==
    LET doubled     == Len(b.items) * growthFactor
        newCapacity == IF b.maxSize > 0 /\ doubled > b.maxSize THEN b.maxSize ELSE doubled
        newItems    == Make(newCapacity)
        copied      ==
            IF b.head < b.tail
            THEN CopyAt(newItems, 0, Slice(b.items, b.head, b.tail))
            ELSE LET n == CopyN(newItems, 0, Slice(b.items, b.head, Len(b.items)))
                 IN  CopyAt(CopyAt(newItems, 0, Slice(b.items, b.head, Len(b.items))),
                            n, Slice(b.items, 0, b.tail))
    IN  [b EXCEPT !.head = 0, !.tail = b.size, !.items = copied]

\* mutant of fifoBox.Put: the buffer is grown before the full check
fifoPutGrowFirst(b, item) ==
    LET g == IF b.size >= Len(b.items) THEN fifoGrow(b) ELSE b
    IN  IF g.maxSize > 0 /\ g.size >= g.maxSize
        THEN Result(g, zero, ErrBlackBoxFull)
        ELSE IF g.tail >= Len(g.items)
             THEN Result(g, zero, Panic)
             ELSE Result([g EXCEPT !.items[g.tail + 1] = item,
                                   !.tail = (g.tail + 1) % Len(g.items),
                                   !.size = g.size + 1],
                         zero, ErrNone)

\* mutant of fifoBox.Put: the buffer is grown when one free slot is left
fifoPutGrowsEarly(b, item) ==
    IF b.maxSize > 0 /\ b.size >= b.maxSize
    THEN Result(b, zero, ErrBlackBoxFull)
    ELSE LET g == IF b.size + 1 >= Len(b.items) THEN fifoGrow(b) ELSE b
         IN  IF g.tail >= Len(g.items)
             THEN Result(g, zero, Panic)
             ELSE Result([g EXCEPT !.items[g.tail + 1] = item,
                                   !.tail = (g.tail + 1) % Len(g.items),
                                   !.size = g.size + 1],
                         zero, ErrNone)

\* mutant of fifoBox.Put: tail is advanced without wrapping around
fifoPutNoWrap(b, item) ==
    IF b.maxSize > 0 /\ b.size >= b.maxSize
    THEN Result(b, zero, ErrBlackBoxFull)
    ELSE LET g == IF b.size >= Len(b.items) THEN fifoGrow(b) ELSE b
         IN  IF g.tail >= Len(g.items)
             THEN Result(g, zero, Panic)
             ELSE Result([g EXCEPT !.items[g.tail + 1] = item,
                                   !.tail = g.tail + 1,
                                   !.size = g.size + 1],
                         zero, ErrNone)

fifoPut(b, item) ==
    IF b.maxSize > 0 /\ b.size >= b.maxSize
    THEN Result(b, zero, ErrBlackBoxFull)
    ELSE LET g == IF b.size >= Len(b.items) THEN fifoGrow(b) ELSE b
         IN  IF g.tail >= Len(g.items)
             THEN Result(g, zero, Panic)
             ELSE Result([g EXCEPT !.items[g.tail + 1] = item,
                                   !.tail = (g.tail + 1) % Len(g.items),
                                   !.size = g.size + 1],
                         zero, ErrNone)

\* mutant of fifoGet: head is not advanced
fifoGetStaleHead(b) ==
    IF b.size = 0
    THEN Result(b, zero, ErrEmptyBlackBox)
    ELSE Result([b EXCEPT !.items[b.head + 1] = zero,
                          !.size = b.size - 1],
                b.items[b.head + 1], ErrNone)

\* mutant of fifoGet: the consumed slot keeps its item
fifoGetKeepsSlot(b) ==
    IF b.size = 0
    THEN Result(b, zero, ErrEmptyBlackBox)
    ELSE Result([b EXCEPT !.head = (b.head + 1) % Len(b.items),
                          !.size = b.size - 1],
                b.items[b.head + 1], ErrNone)

\* mutant of fifoGet: the size is not decremented
fifoGetKeepsSize(b) ==
    IF b.size = 0
    THEN Result(b, zero, ErrEmptyBlackBox)
    ELSE Result([b EXCEPT !.items[b.head + 1] = zero,
                          !.head = (b.head + 1) % Len(b.items)],
                b.items[b.head + 1], ErrNone)

\* mutant of fifoGet: the item before tail is returned, not the one at head
fifoGetNewest(b) ==
    IF b.size = 0
    THEN Result(b, zero, ErrEmptyBlackBox)
    ELSE Result([b EXCEPT !.items[b.head + 1] = zero,
                          !.head = (b.head + 1) % Len(b.items),
                          !.size = b.size - 1],
                b.items[((b.tail + Len(b.items) - 1) % Len(b.items)) + 1], ErrNone)

fifoGet(b) ==
    IF b.size = 0
    THEN Result(b, zero, ErrEmptyBlackBox)
    ELSE Result([b EXCEPT !.items[b.head + 1] = zero,
                          !.head = (b.head + 1) % Len(b.items),
                          !.size = b.size - 1],
                b.items[b.head + 1], ErrNone)

\* mutant of fifoBox.Peek: the newest item is returned, not the oldest
fifoPeekNewest(b) ==
    IF b.size = 0
    THEN Result(b, zero, ErrEmptyBlackBox)
    ELSE Result(b, b.items[((b.tail + Len(b.items) - 1) % Len(b.items)) + 1], ErrNone)

fifoPeek(b) ==
    IF b.size = 0
    THEN Result(b, zero, ErrEmptyBlackBox)
    ELSE Result(b, b.items[b.head + 1], ErrNone)

fifoSize(b) == b.size

fifoMaxSize(b) == b.maxSize

fifoIsFull(b) == b.maxSize > 0 /\ b.size >= b.maxSize

fifoIsEmpty(b) == b.size = 0

\* mutant of fifoBox.Clean: head and tail are left where they were
fifoCleanKeepsHeadTail(b) ==
    LET live == {(b.head + i) % Len(b.items) : i \in 0..(b.size - 1)}
    IN  [b EXCEPT !.items = [k \in 1..Len(b.items) |->
                                IF (k - 1) \in live THEN zero ELSE b.items[k]],
                  !.size = 0]

\* mutant of fifoBox.Clean: the buffer is replaced by one of the default capacity
fifoCleanReallocates(b) ==
    [b EXCEPT !.items = Make(defaultInitialCapacity),
              !.head = 0, !.tail = 0, !.size = 0]

fifoClean(b) ==
    LET live == {(b.head + i) % Len(b.items) : i \in 0..(b.size - 1)}
    IN  [b EXCEPT !.items = [k \in 1..Len(b.items) |->
                                IF (k - 1) \in live THEN zero ELSE b.items[k]],
                  !.head = 0, !.tail = 0, !.size = 0]

\* fifoBox.Items is not in the sources at hand; after the design document: a
\* fresh copy of the size live items starting at head, in order, linearized
fifoItems(b) ==
    [i \in 1..b.size |-> b.items[((b.head + i - 1) % Len(b.items)) + 1]]

----------------------------------------------------------------------------
(* lifoBox: the stack. *)

\* the capacity is only an allocation hint of make([]T, 0, capacity)
NewLIFO(maxSize, capacity) ==
    [strategy |-> StrategyLIFO,
     items    |-> <<>>,
     maxSize  |-> maxSize]

\* mutant of lifoBox.Put: the maximum size is not checked
lifoPutNoCap(b, item) ==
    Result([b EXCEPT !.items = Append(b.items, item)], zero, ErrNone)

lifoPut(b, item) ==
    IF b.maxSize > 0 /\ Len(b.items) >= b.maxSize
    THEN Result(b, zero, ErrBlackBoxFull)
    ELSE Result([b EXCEPT !.items = Append(b.items, item)], zero, ErrNone)

\* mutant of lifoBox.Get: the first element is removed, not the last
lifoGetFront(b) ==
    IF Len(b.items) = 0
    THEN Result(b, zero, ErrEmptyBlackBox)
    ELSE Result([b EXCEPT !.items = Slice(b.items, 1, Len(b.items))],
                b.items[1], ErrNone)

lifoGet(b) ==
    IF Len(b.items) = 0
    THEN Result(b, zero, ErrEmptyBlackBox)
    ELSE LET lastIdx == Len(b.items) - 1
         IN  Result([b EXCEPT !.items = Slice(b.items, 0, lastIdx)],
                    b.items[lastIdx + 1], ErrNone)

\* mutant of lifoBox.Peek: the element returned is also removed
lifoPeekPops(b) ==
    IF Len(b.items) = 0
    THEN Result(b, zero, ErrEmptyBlackBox)
    ELSE Result([b EXCEPT !.items = Slice(b.items, 0, Len(b.items) - 1)],
                b.items[Len(b.items)], ErrNone)

lifoPeek(b) ==
    IF Len(b.items) = 0
    THEN Result(b, zero, ErrEmptyBlackBox)
    ELSE Result(b, b.items[Len(b.items)], ErrNone)

lifoSize(b) == Len(b.items)

lifoMaxSize(b) == b.maxSize

\* mutant of lifoIsFull: any non-zero maximum size counts as a limit
lifoIsFullNonZero(b) == b.maxSize # 0 /\ Len(b.items) >= b.maxSize

lifoIsFull(b) == b.maxSize > 0 /\ Len(b.items) >= b.maxSize

lifoIsEmpty(b) == Len(b.items) = 0

lifoClean(b) == [b EXCEPT !.items = Slice(b.items, 0, 0)]

\* mutant of lifoItems: the snapshot lists the top first
lifoItemsReversed(b) ==
    [i \in 1..Len(b.items) |-> b.items[Len(b.items) + 1 - i]]

lifoItems(b) == CopyAt(Make(Len(b.items)), 0, b.items)

----------------------------------------------------------------------------
(* randomBox: the swap-remove random pool.                                  *)
(*                                                                          *)
(* A generator *rand.Rand is a deterministic function of its seed and of    *)
(* the calls made on it: its state is [seed, hist], hist the arguments of   *)
(* the Intn calls so far.  The number Intn(n) returns is the parameter idx  *)
(* of Get and Peek; the actions choose it in 0..n-1, the same for the same  *)
(* seed and the same calls (oracle).                                        *)

\* rand.New(rand.NewSource(seed))
NewSource(seed) == [seed |-> seed, hist |-> <<>>]

\* the generator after rng.Intn(n)
Intn(rng, n) == [rng EXCEPT !.hist = Append(@, n)]

NewRandom(maxSize, capacity, rng) ==
    [strategy |-> StrategyRandom,
     items    |-> <<>>,
     rng      |-> rng,
     maxSize  |-> maxSize]

\* mutant of randomBox.Put: the full check compares with > instead of >=
randomPutOffByOne(b, item) ==
    IF b.maxSize > 0 /\ Len(b.items) > b.maxSize
    THEN Result(b, zero, ErrBlackBoxFull)
    ELSE Result([b EXCEPT !.items = Append(b.items, item)], zero, ErrNone)

randomPut(b, item) ==
    IF b.maxSize > 0 /\ Len(b.items) >= b.maxSize
    THEN Result(b, zero, ErrBlackBoxFull)
    ELSE Result([b EXCEPT !.items = Append(b.items, item)], zero, ErrNone)

\* mutant of randomBox.Get: the last element is not moved into the drawn slot
randomGetNoSwap(b, idx) ==
    IF Len(b.items) = 0
    THEN Result(b, zero, ErrEmptyBlackBox)
    ELSE LET lastIdx == Len(b.items) - 1
         IN  Result([b EXCEPT !.items = Slice(b.items, 0, lastIdx),
                              !.rng = Intn(b.rng, Len(b.items))],
                    b.items[idx + 1], ErrNone)

randomGet(b, idx) ==
    IF Len(b.items) = 0
    THEN Result(b, zero, ErrEmptyBlackBox)
    ELSE LET lastIdx == Len(b.items) - 1
             swapped == [b.items EXCEPT ![idx + 1] = b.items[lastIdx + 1]]
         IN  Result([b EXCEPT !.items = Slice(swapped, 0, lastIdx),
                              !.rng = Intn(b.rng, Len(b.items))],
                    b.items[idx + 1], ErrNone)

\* mutant of randomBox.Peek: the drawn item is also removed, as Get does
randomPeekRemoves(b, idx) ==
    IF Len(b.items) = 0
    THEN Result(b, zero, ErrEmptyBlackBox)
    ELSE LET lastIdx == Len(b.items) - 1
             swapped == [b.items EXCEPT ![idx + 1] = b.items[lastIdx + 1]]
         IN  Result([b EXCEPT !.items = Slice(swapped, 0, lastIdx),
                              !.rng = Intn(b.rng, Len(b.items))],
                    b.items[idx + 1], ErrNone)

\* mutant of randomBox.Peek: the item is picked without advancing the generator
randomPeekNoDraw(b, idx) ==
    IF Len(b.items) = 0
    THEN Result(b, zero, ErrEmptyBlackBox)
    ELSE Result(b, b.items[idx + 1], ErrNone)

randomPeek(b, idx) ==
    IF Len(b.items) = 0
    THEN Result(b, zero, ErrEmptyBlackBox)
    ELSE Result([b EXCEPT !.rng = Intn(b.rng, Len(b.items))],
                b.items[idx + 1], ErrNone)

randomSize(b) == Len(b.items)

randomMaxSize(b) == b.maxSize

randomIsFull(b) == b.maxSize > 0 /\ Len(b.items) >= b.maxSize

randomIsEmpty(b) == Len(b.items) = 0

randomClean(b) == [b EXCEPT !.items = Slice(b.items, 0, 0)]

\* randomBox.Items is not in the sources at hand; after the design document: a
\* copy of all live elements, as the stack's
randomItems(b) == CopyAt(Make(Len(b.items)), 0, b.items)

----------------------------------------------------------------------------
(* The BlackBox interface: a call dispatches on the engine behind it. *)

Put(b, item) ==
    CASE b.strategy = StrategyFIFO -> fifoPut(b, item)
      [] b.strategy = StrategyLIFO -> lifoPut(b, item)
      [] OTHER                     -> randomPut(b, item)

Get(b, idx) ==
    CASE b.strategy = StrategyFIFO -> fifoGet(b)
      [] b.strategy = StrategyLIFO -> lifoGet(b)
      [] OTHER                     -> randomGet(b, idx)

Peek(b, idx) ==
    CASE b.strategy = StrategyFIFO -> fifoPeek(b)
      [] b.strategy = StrategyLIFO -> lifoPeek(b)
      [] OTHER                     -> randomPeek(b, idx)

Size(b) ==
    CASE b.strategy = StrategyFIFO -> fifoSize(b)
      [] b.strategy = StrategyLIFO -> lifoSize(b)
      [] OTHER                     -> randomSize(b)

MaxSize(b) ==
    CASE b.strategy = StrategyFIFO -> fifoMaxSize(b)
      [] b.strategy = StrategyLIFO -> lifoMaxSize(b)
      [] OTHER                     -> randomMaxSize(b)

IsFull(b) ==
    CASE b.strategy = StrategyFIFO -> fifoIsFull(b)
      [] b.strategy = StrategyLIFO -> lifoIsFull(b)
      [] OTHER                     -> randomIsFull(b)

IsEmpty(b) ==
    CASE b.strategy = StrategyFIFO -> fifoIsEmpty(b)
      [] b.strategy = StrategyLIFO -> lifoIsEmpty(b)
      [] OTHER                     -> randomIsEmpty(b)

Clean(b) ==
    CASE b.strategy = StrategyFIFO -> fifoClean(b)
      [] b.strategy = StrategyLIFO -> lifoClean(b)
      [] OTHER                     -> randomClean(b)

Items(b) ==
    CASE b.strategy = StrategyFIFO -> fifoItems(b)
      [] b.strategy = StrategyLIFO -> lifoItems(b)
      [] OTHER                     -> randomItems(b)

\* the engine behind the interface value
IsQueue(b) == b.strategy = StrategyFIFO
IsStack(b) == b.strategy = StrategyLIFO
IsPool(b) == b.strategy = StrategyRandom

----------------------------------------------------------------------------
(* The factory. *)

\* an Option is the setter a With... function returns
WithStrategy(strategy) == [opt |-> "WithStrategy", v |-> strategy]
WithMaxSize(size) == [opt |-> "WithMaxSize", v |-> size]
WithSeed(seed) == [opt |-> "WithSeed", v |-> seed]
WithInitialCapacity(capacity) == [opt |-> "WithInitialCapacity", v |-> capacity]

\* opt(&cfg)
ApplyOption(cfg, o) ==
    CASE o.opt = "WithStrategy" -> [cfg EXCEPT !.strategy = o.v]
      [] o.opt = "WithMaxSize"  -> [cfg EXCEPT !.maxSize = o.v, !.useMaxSize = TRUE]
      [] o.opt = "WithSeed"     -> [cfg EXCEPT !.seed = o.v, !.useSeed = TRUE]
      [] OTHER                  -> IF o.v > 0 THEN [cfg EXCEPT !.initialCapacity = o.v]
                                   ELSE cfg

RECURSIVE ApplyOptions(_, _)
ApplyOptions(cfg, opts) ==
    IF opts = <<>> THEN cfg
    ELSE ApplyOptions(ApplyOption(cfg, Head(opts)), Tail(opts))

\* mutant of parseOptions: no default replaces a capacity of 0
parseOptionsNoDefault(opts) ==
    ApplyOptions([strategy |-> StrategyRandom, maxSize |-> 0,
                  initialCapacity |-> 0, seed |-> 0,
                  useSeed |-> FALSE, useMaxSize |-> FALSE], opts)

parseOptions(opts) ==
    LET cfg == ApplyOptions([strategy |-> StrategyRandom, maxSize |-> 0,
                             initialCapacity |-> 0, seed |-> 0,
                             useSeed |-> FALSE, useMaxSize |-> FALSE], opts)
    IN  IF cfg.initialCapacity = 0
        THEN [cfg EXCEPT !.initialCapacity = defaultInitialCapacity]
        ELSE cfg

\* mutant of New: the generator is always seeded from the clock
NewIgnoringSeed(opts, now) ==
    LET cfg == parseOptions(opts)
    IN  CASE cfg.strategy = StrategyFIFO -> NewFIFO(cfg.maxSize, cfg.initialCapacity)
          [] cfg.strategy = StrategyLIFO -> NewLIFO(cfg.maxSize, cfg.initialCapacity)
          [] OTHER -> NewRandom(cfg.maxSize, cfg.initialCapacity, NewSource(now))

\* now is the reading of time.Now().UnixNano()
New(opts, now) ==
    LET cfg == parseOptions(opts)
    IN  CASE cfg.strategy = StrategyFIFO -> NewFIFO(cfg.maxSize, cfg.initialCapacity)
          [] cfg.strategy = StrategyLIFO -> NewLIFO(cfg.maxSize, cfg.initialCapacity)
          [] OTHER -> NewRandom(cfg.maxSize, cfg.initialCapacity,
                                IF cfg.useSeed THEN NewSource(cfg.seed)
                                ELSE NewSource(now))

\* NewFIFOFrom is not in the sources at hand; after the design document and
\* NewLIFOFrom: the items are copied into a buffer of their length (never of
\* zero slots), a maximum smaller than their number is widened to it
NewFIFOFrom(items, maxSize) ==
    LET capacity == IF Len(items) = 0 THEN defaultInitialCapacity ELSE Len(items)
    IN  [strategy |-> StrategyFIFO,
         items    |-> CopyAt(Make(capacity), 0, items),
         head     |-> 0,
         tail     |-> Len(items) % capacity,
         size     |-> Len(items),
         maxSize  |-> IF maxSize # 0 /\ maxSize < Len(items) THEN Len(items) ELSE maxSize]

NewLIFOFrom(items, maxSize) ==
    [strategy |-> StrategyLIFO,
     items    |-> CopyAt(Make(Len(items)), 0, items),
     maxSize  |-> IF maxSize # 0 /\ maxSize < Len(items) THEN Len(items) ELSE maxSize]

\* NewRandomFrom is not in the sources at hand; after the design document and
\* NewLIFOFrom
NewRandomFrom(items, maxSize, rng) ==
    [strategy |-> StrategyRandom,
     items    |-> CopyAt(Make(Len(items)), 0, items),
     rng      |-> rng,
     maxSize  |-> IF maxSize # 0 /\ maxSize < Len(items) THEN Len(items) ELSE maxSize]

\* mutant of NewFrom: data longer than the requested maximum is cut to it
NewFromTruncates(data, opts, now) ==
    LET cfg  == parseOptions(opts)
        kept == IF cfg.maxSize > 0 /\ cfg.maxSize < Len(data)
                THEN SubSeq(data, 1, cfg.maxSize)
                ELSE data
    IN  CASE cfg.strategy = StrategyFIFO -> NewFIFOFrom(kept, cfg.maxSize)
          [] cfg.strategy = StrategyLIFO -> NewLIFOFrom(kept, cfg.maxSize)
          [] OTHER -> NewRandomFrom(kept, cfg.maxSize,
                                    IF cfg.useSeed THEN NewSource(cfg.seed)
                                    ELSE NewSource(now))

NewFrom(data, opts, now) ==
    LET cfg0 == parseOptions(opts)
        cfg  == IF cfg0.maxSize > 0 /\ cfg0.maxSize < Len(data)
                THEN [cfg0 EXCEPT !.maxSize = Len(data)]
                ELSE cfg0
    IN  CASE cfg.strategy = StrategyFIFO -> NewFIFOFrom(data, cfg.maxSize)
          [] cfg.strategy = StrategyLIFO -> NewLIFOFrom(data, cfg.maxSize)
          [] OTHER -> NewRandomFrom(data, cfg.maxSize,
                                    IF cfg.useSeed THEN NewSource(cfg.seed)
                                    ELSE NewSource(now))

\* NewFIFOFromBlackBox, NewLIFOFromBlackBox and NewRandomFromBlackBox are not in
\* the sources at hand; after the design document and NewLIFOFromBox: the new
\* engine holds a copy of the source's live items, in snapshot order, and the
\* maximum size it is given
NewFIFOFromBlackBox(b, maxSize) ==
    [NewFIFOFrom(Items(b), 0) EXCEPT !.maxSize = maxSize]

NewLIFOFromBlackBox(b, maxSize) ==
    [strategy |-> StrategyLIFO,
     items    |-> Items(b),
     maxSize  |-> maxSize]

NewRandomFromBlackBox(b, maxSize, rng) ==
    [strategy |-> StrategyRandom,
     items    |-> Items(b),
     rng      |-> rng,
     maxSize  |-> maxSize]

\* mutant of NewFromBlackBox: a maximum below the item count is not widened
NewFromBlackBoxNoWiden(b, opts, now) ==
    LET cfg0 == parseOptions(opts)
        cfg  == IF cfg0.useMaxSize
                THEN cfg0
                ELSE [cfg0 EXCEPT !.maxSize = MaxSize(b)]
    IN  CASE cfg.strategy = StrategyFIFO -> NewFIFOFromBlackBox(b, cfg.maxSize)
          [] cfg.strategy = StrategyLIFO -> NewLIFOFromBlackBox(b, cfg.maxSize)
          [] OTHER -> NewRandomFromBlackBox(b, cfg.maxSize,
                                            IF cfg.useSeed THEN NewSource(cfg.seed)
                                            ELSE NewSource(now))

\* mutant of NewFromBlackBox: without WithMaxSize the new engine is unlimited
NewFromBlackBoxNoInherit(b, opts, now) ==
    LET cfg0 == parseOptions(opts)
        cfg  == IF cfg0.maxSize > 0 /\ cfg0.maxSize < Size(b)
                THEN [cfg0 EXCEPT !.maxSize = Size(b)]
                ELSE cfg0
    IN  CASE cfg.strategy = StrategyFIFO -> NewFIFOFromBlackBox(b, cfg.maxSize)
          [] cfg.strategy = StrategyLIFO -> NewLIFOFromBlackBox(b, cfg.maxSize)
          [] OTHER -> NewRandomFromBlackBox(b, cfg.maxSize,
                                            IF cfg.useSeed THEN NewSource(cfg.seed)
                                            ELSE NewSource(now))

NewFromBlackBox(b, opts, now) ==
    LET cfg0 == parseOptions(opts)
        cfg  == IF cfg0.useMaxSize
                THEN IF cfg0.maxSize > 0 /\ cfg0.maxSize < Size(b)
                     THEN [cfg0 EXCEPT !.maxSize = Size(b)]
                     ELSE cfg0
                ELSE [cfg0 EXCEPT !.maxSize = MaxSize(b)]
    IN  CASE cfg.strategy = StrategyFIFO -> NewFIFOFromBlackBox(b, cfg.maxSize)
          [] cfg.strategy = StrategyLIFO -> NewLIFOFromBlackBox(b, cfg.maxSize)
          [] OTHER -> NewRandomFromBlackBox(b, cfg.maxSize,
                                            IF cfg.useSeed THEN NewSource(cfg.seed)
                                            ELSE NewSource(now))

----------------------------------------------------------------------------
(* The generators' outputs.  oracle maps <<seed, hist \o <<n>>>> to the      *)
(* number the generator of that seed returned to Intn(n) after the calls    *)
(* hist; a generator asked again in the same state answers the same.        *)

NoDraws == [k \in {} |-> 0]

NeedsDraw(b) == b.strategy = StrategyRandom /\ Len(b.items) > 0

DrawKey(b) == <<b.rng.seed, Append(b.rng.hist, Len(b.items))>>

\* the numbers b.rng.Intn(len(b.items)) can return (0 when no draw is made)
Draws(b, orc) ==
    IF ~NeedsDraw(b) THEN {0}
    ELSE IF DrawKey(b) \in DOMAIN orc THEN {orc[DrawKey(b)]}
    ELSE 0..(Len(b.items) - 1)

Drawn(b, orc, idx) ==
    IF NeedsDraw(b) THEN (DrawKey(b) :> idx) @@ orc ELSE orc

CanDraw(b) == NeedsDraw(b) => Len(b.rng.hist) < MaxDraws

----------------------------------------------------------------------------
(* One engine used by one caller. *)

NoCall == [op |-> "none", arg |-> zero, item |-> zero, err |-> ErrNone, idx |-> 0]

\* the call replaced the queue's buffer by a larger one
Grew(b, after) == b.strategy = StrategyFIFO /\ Len(after.items) > Len(b.items)

Called(op, arg, r, idx) ==
    [op |-> op, arg |-> arg, item |-> r.item, err |-> r.err, idx |-> idx]

\* the options offered to New; strategy 3 is no defined strategy
Options ==
    {WithStrategy(s) : s \in 0..3}
        \cup {WithMaxSize(m) : m \in (-1)..MaxMaxSize}
        \cup {WithSeed(s) : s \in Seeds}
        \cup {WithInitialCapacity(c) : c \in (-1)..MaxCap}

OptLists(n) == UNION {[1..k -> Options] : k \in 0..n}

\* the clock reading when one engine is built
Now == CHOOSE t \in Times : TRUE

\* the engines the constructors build (make panics on a negative capacity)
Constructed ==
    {New(o, Now) : o \in OptLists(3)}
        \cup {NewFIFO(m, c) : m \in (-1)..MaxMaxSize, c \in 0..MaxCap}
        \cup {NewLIFO(m, c) : m \in (-1)..MaxMaxSize, c \in 0..MaxCap}
        \cup {NewRandom(m, c, NewSource(s)) :
                m \in (-1)..MaxMaxSize, c \in 0..MaxCap, s \in Seeds}

NoTwin ==
    /\ twin = NoCall
    /\ res2 = NoCall
    /\ getLog2 = <<>>
    /\ args = <<>>

NoWrapper ==
    /\ mu = FALSE
    /\ pc = <<>>
    /\ call = <<>>
    /\ ret = <<>>

Init ==
    /\ box \in Constructed
    /\ res = NoCall
    /\ putLog = <<>>
    /\ getLog = <<>>
    /\ mixed = FALSE
    /\ grows = [n |-> 0, wrapped |-> 0]
    /\ panicked = FALSE
    /\ heap = <<>>
    /\ oracle = NoDraws
    /\ NoTwin
    /\ NoWrapper

DoPut(item) ==
    /\ ~panicked
    /\ Len(putLog) < MaxPuts
    /\ LET r == Put(box, item)
       IN  /\ box' = r.box
           /\ res' = Called("Put", item, r, 0)
           /\ putLog' = IF r.err = ErrNone THEN Append(putLog, item) ELSE putLog
           /\ mixed' = (mixed \/ (r.err = ErrNone /\ getLog # <<>>))
           /\ grows' = IF Grew(box, r.box)
                        THEN [n       |-> grows.n + 1,
                              wrapped |-> grows.wrapped + (IF box.head > 0 THEN 1 ELSE 0)]
                        ELSE grows
           /\ panicked' = (r.err = Panic)
    /\ UNCHANGED <<heap, getLog, oracle, args, twin, res2, getLog2, mu, pc, call, ret>>

DoGet ==
    /\ ~panicked
    /\ CanDraw(box)
    /\ \E idx \in Draws(box, oracle) :
        LET r == Get(box, idx)
        IN  /\ box' = r.box
            /\ res' = Called("Get", zero, r, idx)
            /\ getLog' = IF r.err = ErrNone THEN Append(getLog, r.item) ELSE getLog
    /\ UNCHANGED <<heap, putLog, mixed, grows, panicked, oracle, args, twin, res2, getLog2, mu, pc, call, ret>>

DoPeek ==
    /\ ~panicked
    /\ CanDraw(box)
    /\ \E idx \in Draws(box, oracle) :
        LET r == Peek(box, idx)
        IN  /\ box' = r.box
            /\ res' = Called("Peek", zero, r, idx)
    /\ UNCHANGED <<heap, putLog, getLog, mixed, grows, panicked, oracle, args, twin, res2, getLog2, mu, pc, call, ret>>

DoClean ==
    /\ ~panicked
    /\ box' = Clean(box)
    /\ res' = [NoCall EXCEPT !.op = "Clean"]
    /\ putLog' = <<>>
    /\ getLog' = <<>>
    /\ mixed' = FALSE
    /\ UNCHANGED <<heap, grows, panicked, oracle, args, twin, res2, getLog2, mu, pc, call, ret>>

Next ==
    \/ \E item \in Vals : DoPut(item)
    \/ DoGet
    \/ DoPeek
    \/ DoClean

Spec == Init /\ [][Next]_vars

----------------------------------------------------------------------------
(* Two random pools built by New with the same options, given the same      *)
(* calls in the same order (TestRandomStrategyWithSeed).                    *)

\* the option lists of the two-engine runs: a fixed seed, with or without a
\* maximum size
TwinOptLists ==
    {<<WithSeed(s)>> : s \in Seeds}
        \cup {<<WithStrategy(StrategyRandom), WithSeed(s)>> : s \in Seeds}
        \cup {<<WithSeed(s), WithMaxSize(m)>> : m \in 1..MaxMaxSize, s \in Seeds}

TwinInit ==
    /\ \E o \in TwinOptLists :
       \E now1 \in Times : \E now2 \in Times :
        /\ args = o
        /\ box = New(o, now1)
        /\ twin = New(o, now2)
    /\ res = NoCall
    /\ res2 = NoCall
    /\ putLog = <<>>
    /\ getLog = <<>>
    /\ getLog2 = <<>>
    /\ mixed = FALSE
    /\ grows = [n |-> 0, wrapped |-> 0]
    /\ panicked = FALSE
    /\ heap = <<>>
    /\ oracle = NoDraws
    /\ NoWrapper

TwinPut(item) ==
    /\ Len(putLog) < TwinPuts
    /\ LET r1 == Put(box, item)
           r2 == Put(twin, item)
       IN  /\ box' = r1.box
           /\ twin' = r2.box
           /\ res' = Called("Put", item, r1, 0)
           /\ res2' = Called("Put", item, r2, 0)
           /\ putLog' = IF r1.err = ErrNone THEN Append(putLog, item) ELSE putLog
    /\ UNCHANGED <<heap, getLog, getLog2, mixed, grows, panicked, oracle, args, mu, pc, call, ret>>

TwinGet ==
    /\ CanDraw(box) /\ CanDraw(twin)
    /\ \E idx1 \in Draws(box, oracle) :
       \E idx2 \in Draws(twin, Drawn(box, oracle, idx1)) :
        LET r1 == Get(box, idx1)
            r2 == Get(twin, idx2)
        IN  /\ box' = r1.box
            /\ twin' = r2.box
            /\ res' = Called("Get", zero, r1, idx1)
            /\ res2' = Called("Get", zero, r2, idx2)
            /\ getLog' = IF r1.err = ErrNone THEN Append(getLog, r1.item) ELSE getLog
            /\ getLog2' = IF r2.err = ErrNone THEN Append(getLog2, r2.item) ELSE getLog2
            /\ oracle' = Drawn(twin, Drawn(box, oracle, idx1), idx2)
    /\ UNCHANGED <<heap, putLog, mixed, grows, panicked, args, mu, pc, call, ret>>

TwinPeek ==
    /\ CanDraw(box) /\ CanDraw(twin)
    /\ \E idx1 \in Draws(box, oracle) :
       \E idx2 \in Draws(twin, Drawn(box, oracle, idx1)) :
        LET r1 == Peek(box, idx1)
            r2 == Peek(twin, idx2)
        IN  /\ box' = r1.box
            /\ twin' = r2.box
            /\ res' = Called("Peek", zero, r1, idx1)
            /\ res2' = Called("Peek", zero, r2, idx2)
            /\ oracle' = Drawn(twin, Drawn(box, oracle, idx1), idx2)
    /\ UNCHANGED <<heap, putLog, getLog, getLog2, mixed, grows, panicked, args, mu, pc, call, ret>>

TwinClean ==
    /\ box' = Clean(box)
    /\ twin' = Clean(twin)
    /\ res' = [NoCall EXCEPT !.op = "Clean"]
    /\ res2' = [NoCall EXCEPT !.op = "Clean"]
    /\ putLog' = <<>>
    /\ getLog' = <<>>
    /\ getLog2' = <<>>
    /\ UNCHANGED <<heap, mixed, grows, panicked, oracle, args, mu, pc, call, ret>>

TwinNext ==
    \/ \E item \in Vals : TwinPut(item)
    \/ TwinGet
    \/ TwinPeek
    \/ TwinClean

SpecTwin == TwinInit /\ [][TwinNext]_vars

(* Two pools built alike and given the same Puts, Gets and Cleans, where the
   second pool is also peeked on its own. *)

\* the draws the second pool may be ahead of the first
MaxSolo == 1

\* the items put into the two pools between two Cleans
SoloPuts == 2

\* twin.Peek() while the first pool is left alone
SoloPeek ==
    /\ CanDraw(twin)
    /\ Len(twin.rng.hist) - Len(box.rng.hist) < MaxSolo
    /\ \E idx2 \in Draws(twin, oracle) :
        LET r2 == Peek(twin, idx2)
        IN  /\ twin' = r2.box
            /\ res2' = Called("Peek", zero, r2, idx2)
            /\ oracle' = Drawn(twin, oracle, idx2)
    /\ UNCHANGED <<heap, box, res, putLog, getLog, getLog2, mixed, grows, panicked, args,
                   mu, pc, call, ret>>

\* the options the two pools are built with: unbounded, or holding one item
SoloOptLists ==
    {<<WithSeed(s)>> : s \in Seeds}
        \cup {<<WithSeed(s), WithMaxSize(1)>> : s \in Seeds}

SoloInit ==
    /\ \E o \in SoloOptLists :
       \E now1 \in Times : \E now2 \in Times :
        /\ args = o
        /\ box = New(o, now1)
        /\ twin = New(o, now2)
    /\ res = NoCall
    /\ res2 = NoCall
    /\ putLog = <<>>
    /\ getLog = <<>>
    /\ getLog2 = <<>>
    /\ mixed = FALSE
    /\ grows = [n |-> 0, wrapped |-> 0]
    /\ panicked = FALSE
    /\ heap = <<>>
    /\ oracle = NoDraws
    /\ NoWrapper

SoloNext ==
    \/ \E item \in Vals : Len(putLog) < SoloPuts /\ TwinPut(item)
    \/ TwinGet
    \/ TwinPeek
    \/ TwinClean
    \/ SoloPeek

SpecSolo == SoloInit /\ [][SoloNext]_vars

----------------------------------------------------------------------------
(* The struct-based container of blackbox.go: one type for the three
   strategies, the strategy being looked at in every method. *)

\* opt(&config) on a blackBoxConfig
BlackBoxOption(c, o) ==
    CASE o.opt = "WithStrategy" -> [c EXCEPT !.strategy = o.v]
      [] o.opt = "WithMaxSize"  -> [c EXCEPT !.maxSize = o.v]
      [] o.opt = "WithSeed"     -> [c EXCEPT !.rng = NewSource(o.v)]
      [] OTHER                  -> IF o.v > 0 THEN [c EXCEPT !.initialCapacity = o.v]
                                   ELSE c

RECURSIVE BlackBoxOptions(_, _)
BlackBoxOptions(c, opts) ==
    IF opts = <<>> THEN c
    ELSE BlackBoxOptions(BlackBoxOption(c, Head(opts)), Tail(opts))

\* New of blackbox.go; LIFO and Random start from make([]T, 0, capacity)
BlackBoxNew(opts, now) ==
    LET config   == BlackBoxOptions([strategy |-> StrategyRandom, maxSize |-> 0,
                                     initialCapacity |-> 0, rng |-> NewSource(now)], opts)
        capacity == IF config.initialCapacity = 0 THEN defaultInitialCapacity
                    ELSE config.initialCapacity
    IN  [strategy        |-> config.strategy,
         maxSize         |-> config.maxSize,
         initialCapacity |-> config.initialCapacity,
         rng             |-> config.rng,
         items           |-> IF config.strategy = StrategyFIFO THEN Make(capacity) ELSE <<>>,
         fifoHead        |-> 0,
         fifoTail        |-> 0,
         fifoSize        |-> 0]

BlackBoxFifoGrow(b) ==
    LET doubled     == Len(b.items) * growthFactor
        newCapacity == IF b.maxSize > 0 /\ doubled > b.maxSize THEN b.maxSize ELSE doubled
        newItems    == Make(newCapacity)
        copied      ==
            IF b.fifoHead < b.fifoTail
            THEN CopyAt(newItems, 0, Slice(b.items, b.fifoHead, b.fifoTail))
            ELSE LET n == CopyN(newItems, 0, Slice(b.items, b.fifoHead, Len(b.items)))
                 IN  CopyAt(CopyAt(newItems, 0, Slice(b.items, b.fifoHead, Len(b.items))),
                            n, Slice(b.items, 0, b.fifoTail))
    IN  [b EXCEPT !.fifoHead = 0, !.fifoTail = b.fifoSize, !.items = copied]

BlackBoxIsEmpty(b) ==
    IF b.strategy = StrategyFIFO THEN b.fifoSize = 0 ELSE Len(b.items) = 0

BlackBoxSize(b) ==
    IF b.strategy = StrategyFIFO THEN b.fifoSize ELSE Len(b.items)

\* BlackBox.Put: a switch over the strategy with no default case
BlackBoxPut(b, item) ==
    CASE b.strategy = StrategyFIFO ->
            IF b.maxSize > 0 /\ b.fifoSize >= b.maxSize
            THEN Result(b, zero, ErrBlackBoxFull)
            ELSE LET g == IF b.fifoSize >= Len(b.items) THEN BlackBoxFifoGrow(b) ELSE b
                 IN  IF g.fifoTail >= Len(g.items)
                     THEN Result(g, zero, Panic)
                     ELSE Result([g EXCEPT !.items[g.fifoTail + 1] = item,
                                           !.fifoTail = (g.fifoTail + 1) % Len(g.items),
                                           !.fifoSize = g.fifoSize + 1],
                                 zero, ErrNone)
      [] b.strategy \in {StrategyLIFO, StrategyRandom} ->
            IF b.maxSize > 0 /\ Len(b.items) >= b.maxSize
            THEN Result(b, zero, ErrBlackBoxFull)
            ELSE Result([b EXCEPT !.items = Append(b.items, item)], zero, ErrNone)
      [] OTHER -> Result(b, zero, ErrNone)

\* BlackBox.Get, for the index idx the generator draws
BlackBoxGet(b, idx) ==
    IF BlackBoxIsEmpty(b)
    THEN Result(b, zero, ErrEmptyBlackBox)
    ELSE CASE b.strategy = StrategyFIFO ->
                Result([b EXCEPT !.items[b.fifoHead + 1] = zero,
                                 !.fifoHead = (b.fifoHead + 1) % Len(b.items),
                                 !.fifoSize = b.fifoSize - 1],
                       b.items[b.fifoHead + 1], ErrNone)
           [] b.strategy = StrategyLIFO ->
                LET lastIdx == Len(b.items) - 1
                IN  Result([b EXCEPT !.items = Slice(b.items, 0, lastIdx)],
                           b.items[lastIdx + 1], ErrNone)
           [] b.strategy = StrategyRandom ->
                LET lastIdx == Len(b.items) - 1
                    swapped == [b.items EXCEPT ![idx + 1] = b.items[lastIdx + 1]]
                IN  Result([b EXCEPT !.items = Slice(swapped, 0, lastIdx),
                                     !.rng = Intn(b.rng, Len(b.items))],
                           b.items[idx + 1], ErrNone)
           [] OTHER -> Result(b, zero, ErrNone)

\* BlackBox.Peek, for the index idx the generator draws
BlackBoxPeek(b, idx) ==
    IF BlackBoxIsEmpty(b)
    THEN Result(b, zero, ErrEmptyBlackBox)
    ELSE CASE b.strategy = StrategyFIFO -> Result(b, b.items[b.fifoHead + 1], ErrNone)
           [] b.strategy = StrategyLIFO -> Result(b, b.items[Len(b.items)], ErrNone)
           [] b.strategy = StrategyRandom ->
                Result([b EXCEPT !.rng = Intn(b.rng, Len(b.items))],
                       b.items[idx + 1], ErrNone)
           [] OTHER -> Result(b, zero, ErrNone)

BlackBoxClean(b) ==
    IF b.strategy = StrategyFIFO
    THEN LET live == {(b.fifoHead + i) % Len(b.items) : i \in 0..(b.fifoSize - 1)}
         IN  [b EXCEPT !.items = [k \in 1..Len(b.items) |->
                                     IF (k - 1) \in live THEN zero ELSE b.items[k]],
                       !.fifoHead = 0, !.fifoTail = 0, !.fifoSize = 0]
    ELSE [b EXCEPT !.items = <<>>]

\* the items a container holds: the fifoSize slots from fifoHead on, or the slice
BlackBoxHeld(b) ==
    IF b.strategy = StrategyFIFO
    THEN [i \in 1..b.fifoSize |-> b.items[((b.fifoHead + i - 1) % Len(b.items)) + 1]]
    ELSE b.items

\* the items put between two Cleans
StructPuts == 3

\* Strategy is an int: WithStrategy accepts a value that names no strategy
StructOptLists ==
    {<<WithStrategy(s), WithMaxSize(m), WithInitialCapacity(c), WithSeed(sd)>> :
        s \in 0..3, m \in 0..MaxMaxSize, c \in 0..MaxCap, sd \in Seeds}

StructInit ==
    /\ \E o \in StructOptLists :
        /\ args = o
        /\ box = BlackBoxNew(o, Now)
    /\ res = NoCall
    /\ putLog = <<>>
    /\ getLog = <<>>
    /\ mixed = FALSE
    /\ grows = [n |-> 0, wrapped |-> 0]
    /\ panicked = FALSE
    /\ heap = <<>>
    /\ oracle = NoDraws
    /\ twin = NoCall
    /\ res2 = NoCall
    /\ getLog2 = <<>>
    /\ NoWrapper

StructPut(item) ==
    /\ ~panicked
    /\ Len(putLog) < StructPuts
    /\ LET r == BlackBoxPut(box, item)
       IN  /\ box' = r.box
           /\ res' = Called("Put", item, r, 0)
           /\ putLog' = IF r.err = ErrNone THEN Append(putLog, item) ELSE putLog
           /\ panicked' = (r.err = Panic)
    /\ UNCHANGED <<heap, getLog, mixed, grows, oracle, args, twin, res2, getLog2,
                   mu, pc, call, ret>>

StructGet ==
    /\ ~panicked
    /\ CanDraw(box)
    /\ \E idx \in Draws(box, oracle) :
        LET r == BlackBoxGet(box, idx)
        IN  /\ box' = r.box
            /\ res' = Called("Get", zero, r, idx)
            /\ getLog' = IF r.err = ErrNone THEN Append(getLog, r.item) ELSE getLog
    /\ UNCHANGED <<heap, putLog, mixed, grows, panicked, oracle, args, twin, res2, getLog2,
                   mu, pc, call, ret>>

StructPeek ==
    /\ ~panicked
    /\ CanDraw(box)
    /\ \E idx \in Draws(box, oracle) :
        LET r == BlackBoxPeek(box, idx)
        IN  /\ box' = r.box
            /\ res' = Called("Peek", zero, r, idx)
    /\ UNCHANGED <<heap, putLog, getLog, mixed, grows, panicked, oracle, args, twin, res2,
                   getLog2, mu, pc, call, ret>>

StructClean ==
    /\ ~panicked
    /\ box' = BlackBoxClean(box)
    /\ res' = [NoCall EXCEPT !.op = "Clean"]
    /\ putLog' = <<>>
    /\ getLog' = <<>>
    /\ UNCHANGED <<heap, mixed, grows, panicked, oracle, args, twin, res2, getLog2,
                   mu, pc, call, ret>>

StructNext ==
    \/ \E item \in Vals : StructPut(item)
    \/ StructGet
    \/ StructPeek
    \/ StructClean

SpecStruct == StructInit /\ [][StructNext]_vars

----------------------------------------------------------------------------
(* One engine used by one caller who also builds engines from sequences     *)
(* (NewFrom) and from the engine at hand (NewFromBlackBox); the new engine  *)
(* replaces the one at hand.                                                *)

\* the sequences of items handed to NewFrom
Datas == UNION {[1..n -> Vals] : n \in 0..MaxData}

\* the option lists handed to NewFrom and NewFromBlackBox
FromOptLists ==
    {<<WithStrategy(s)>> : s \in {StrategyRandom, StrategyFIFO, StrategyLIFO}}
        \cup {<<WithStrategy(s), WithMaxSize(m)>> :
                s \in {StrategyRandom, StrategyFIFO, StrategyLIFO},
                m \in 0..MaxData}

FromInit ==
    /\ box \in {New(o, Now) : o \in FromOptLists}
                \cup {NewFIFO(m, c) : m \in 0..1, c \in 0..1}
    /\ res = NoCall
    /\ putLog = <<>>
    /\ getLog = <<>>
    /\ mixed = FALSE
    /\ grows = [n |-> 0, wrapped |-> 0]
    /\ panicked = FALSE
    /\ heap = <<>>
    /\ oracle = NoDraws
    /\ NoTwin
    /\ NoWrapper

\* box = NewFrom(data, opts...), before any call is made; the items supplied
\* count as put
DoNewFrom(data, o) ==
    /\ res.op = "none"
    /\ box' = NewFrom(data, o, Now)
    /\ res' = [NoCall EXCEPT !.op = "NewFrom"]
    /\ args' = o
    /\ putLog' = data
    /\ getLog' = <<>>
    /\ mixed' = FALSE
    /\ grows' = [n |-> 0, wrapped |-> 0]
    /\ panicked' = FALSE
    /\ UNCHANGED <<heap, oracle, twin, res2, getLog2, mu, pc, call, ret>>

\* box = NewFromBlackBox(box, opts...); the items copied count as put
DoNewFromBlackBox(o) ==
    /\ ~panicked
    /\ box' = NewFromBlackBox(box, o, Now)
    /\ res' = [NoCall EXCEPT !.op = "NewFromBlackBox"]
    /\ args' = o
    /\ putLog' = Items(box)
    /\ getLog' = <<>>
    /\ mixed' = FALSE
    /\ grows' = [n |-> 0, wrapped |-> 0]
    /\ UNCHANGED <<heap, panicked, oracle, twin, res2, getLog2, mu, pc, call, ret>>

FromCanDraw == NeedsDraw(box) => Len(box.rng.hist) < FromDraws

FromNext ==
    \/ \E item \in Vals : Len(putLog) < FromPuts /\ DoPut(item)
    \/ FromCanDraw /\ DoGet
    \/ FromCanDraw /\ DoPeek
    \/ DoClean
    \/ \E data \in Datas : \E o \in FromOptLists : DoNewFrom(data, o)
    \/ \E o \in FromOptLists : DoNewFromBlackBox(o)

SpecFrom == FromInit /\ [][FromNext]_vars

----------------------------------------------------------------------------
(* One engine, built empty or from a sequence and then used, of which a     *)
(* second engine is built by NewFromBlackBox: twin = NewFromBlackBox(box).  *)

\* the option lists of these runs: also a negative maximum size
CopyOptLists ==
    FromOptLists
        \cup {<<WithStrategy(s), WithMaxSize(-1)>> :
                s \in {StrategyRandom, StrategyFIFO, StrategyLIFO}}

CopyInit ==
    /\ \/ box \in {New(o, Now) : o \in CopyOptLists} /\ putLog = <<>>
       \/ \E data \in Datas : \E o \in CopyOptLists :
            box = NewFrom(data, o, Now) /\ putLog = data
    /\ res = NoCall
    /\ getLog = <<>>
    /\ mixed = FALSE
    /\ grows = [n |-> 0, wrapped |-> 0]
    /\ panicked = FALSE
    /\ heap = <<>>
    /\ oracle = NoDraws
    /\ NoTwin
    /\ NoWrapper

\* twin = NewFromBlackBox(box, opts...)
CopyBox(o) ==
    /\ twin = NoCall
    /\ twin' = NewFromBlackBox(box, o, Now)
    /\ args' = o
    /\ res' = [NoCall EXCEPT !.op = "NewFromBlackBox"]
    /\ UNCHANGED <<heap, box, putLog, getLog, mixed, grows, panicked, oracle, res2, getLog2,
                   mu, pc, call, ret>>

CopyNext ==
    \/ \E item \in Vals : twin = NoCall /\ Len(putLog) < FromPuts /\ DoPut(item)
    \/ twin = NoCall /\ FromCanDraw /\ DoGet
    \/ twin = NoCall /\ FromCanDraw /\ DoPeek
    \/ twin = NoCall /\ DoClean
    \/ \E o \in CopyOptLists : CopyBox(o)

SpecCopy == CopyInit /\ [][CopyNext]_vars

----------------------------------------------------------------------------
(* concurrentBox: one engine behind a mutex, called by the goroutines Procs. *)
(* A wrapper method is four steps: c.mu.Lock(), the call on c.inner,        *)
(* c.mu.Unlock(), return.                                                   *)

\* a mutant of CanLock: Lock returns although the mutex is held
CanLockHeld(m) == TRUE

\* c.mu.Lock() returns only when the mutex is not held
CanLock(m) == ~m

Idle == [op |-> "none", arg |-> zero]

NoRet == [item |-> zero, err |-> ErrNone]

\* the methods of concurrentBox and their arguments
Calls ==
    {[op |-> "Put", arg |-> v] : v \in Vals}
        \cup {[op |-> o, arg |-> zero] :
                o \in {"Get", "Peek", "Size", "MaxSize", "IsFull", "IsEmpty", "Clean"}}

Pending(ops) == Cardinality({q \in Procs : pc[q] \in {"lock", "inner"} /\ call[q].op \in ops})

\* NewConcurrent(inner) for the engines New builds with initial capacity 1; twin
\* is an engine built alike that is called directly, without the wrapper
ConcInit ==
    /\ box \in {New(<<WithStrategy(s), WithMaxSize(m), WithInitialCapacity(1)>>, Now) :
                    s \in {StrategyRandom, StrategyFIFO, StrategyLIFO}, m \in {0, 1}}
    /\ mu = FALSE
    /\ pc = [p \in Procs |-> "idle"]
    /\ call = [p \in Procs |-> Idle]
    /\ ret = [p \in Procs |-> NoRet]
    /\ res = NoCall
    /\ putLog = <<>>
    /\ getLog = <<>>
    /\ mixed = FALSE
    /\ grows = [n |-> 0, wrapped |-> 0]
    /\ panicked = FALSE
    /\ heap = <<>>
    /\ oracle = NoDraws
    /\ twin = box
    /\ res2 = NoCall
    /\ getLog2 = <<>>
    /\ args = <<>>

\* goroutine p calls a method of the wrapper
cCall(p, c) ==
    /\ ~panicked
    /\ pc[p] = "idle"
    /\ c.op = "Put" => Len(putLog) + Pending({"Put"}) < ConcPuts
    /\ (c.op \in {"Get", "Peek"} /\ IsPool(box)) =>
            Len(box.rng.hist) + Pending({"Get", "Peek"}) < ConcDraws
    /\ pc' = [pc EXCEPT ![p] = "lock"]
    /\ call' = [call EXCEPT ![p] = c]
    /\ UNCHANGED <<heap, box, res, putLog, getLog, mixed, grows, panicked, oracle, args,
                   twin, res2, getLog2, mu, ret>>

\* c.mu.Lock()
cLock(p) ==
    /\ ~panicked
    /\ pc[p] = "lock"
    /\ CanLock(mu)
    /\ mu' = TRUE
    /\ pc' = [pc EXCEPT ![p] = "inner"]
    /\ UNCHANGED <<heap, box, res, putLog, getLog, mixed, grows, panicked, oracle, args,
                   twin, res2, getLog2, call, ret>>

\* the method c.op called on an engine directly, for the drawn index idx
Bare(b, c, idx) ==
    CASE c.op = "Put"     -> Put(b, c.arg)
      [] c.op = "Get"     -> Get(b, idx)
      [] c.op = "Peek"    -> Peek(b, idx)
      [] c.op = "Size"    -> Result(b, Size(b), ErrNone)
      [] c.op = "MaxSize" -> Result(b, MaxSize(b), ErrNone)
      [] c.op = "IsFull"  -> Result(b, IF IsFull(b) THEN 1 ELSE 0, ErrNone)
      [] c.op = "IsEmpty" -> Result(b, IF IsEmpty(b) THEN 1 ELSE 0, ErrNone)
      [] OTHER            -> Result(Clean(b), zero, ErrNone)

\* a mutant of Inner: the wrapper's Put drops the engine's error
InnerPutHidesError(b, c, idx) ==
    CASE c.op = "Put"     -> Result(Put(b, c.arg).box, zero, ErrNone)
      [] c.op = "Get"     -> Get(b, idx)
      [] c.op = "Peek"    -> Peek(b, idx)
      [] c.op = "Size"    -> Result(b, Size(b), ErrNone)
      [] c.op = "MaxSize" -> Result(b, MaxSize(b), ErrNone)
      [] c.op = "IsFull"  -> Result(b, IF IsFull(b) THEN 1 ELSE 0, ErrNone)
      [] c.op = "IsEmpty" -> Result(b, IF IsEmpty(b) THEN 1 ELSE 0, ErrNone)
      [] OTHER            -> Result(Clean(b), zero, ErrNone)

\* a mutant of Inner: the wrapper's Get delegates to the engine's Peek
InnerGetPeeks(b, c, idx) ==
    CASE c.op = "Put"     -> Put(b, c.arg)
      [] c.op = "Get"     -> Peek(b, idx)
      [] c.op = "Peek"    -> Peek(b, idx)
      [] c.op = "Size"    -> Result(b, Size(b), ErrNone)
      [] c.op = "MaxSize" -> Result(b, MaxSize(b), ErrNone)
      [] c.op = "IsFull"  -> Result(b, IF IsFull(b) THEN 1 ELSE 0, ErrNone)
      [] c.op = "IsEmpty" -> Result(b, IF IsEmpty(b) THEN 1 ELSE 0, ErrNone)
      [] OTHER            -> Result(Clean(b), zero, ErrNone)

\* what the wrapper's method c.op obtains from c.inner, for the drawn index idx
Inner(b, c, idx) ==
    CASE c.op = "Put"     -> Put(b, c.arg)
      [] c.op = "Get"     -> Get(b, idx)
      [] c.op = "Peek"    -> Peek(b, idx)
      [] c.op = "Size"    -> Result(b, Size(b), ErrNone)
      [] c.op = "MaxSize" -> Result(b, MaxSize(b), ErrNone)
      [] c.op = "IsFull"  -> Result(b, IF IsFull(b) THEN 1 ELSE 0, ErrNone)
      [] c.op = "IsEmpty" -> Result(b, IF IsEmpty(b) THEN 1 ELSE 0, ErrNone)
      [] OTHER            -> Result(Clean(b), zero, ErrNone)

\* the call on c.inner, made between Lock and Unlock; the same call is made on
\* the twin directly, so the twin receives the calls in lock-acquisition order
cInner(p) ==
    /\ ~panicked
    /\ pc[p] = "inner"
    /\ \E idx \in (IF call[p].op \in {"Get", "Peek"} THEN Draws(box, oracle) ELSE {0}) :
        LET r  == Inner(box, call[p], idx)
            ok == r.err = ErrNone
        IN  /\ box' = r.box
            /\ twin' = Bare(twin, call[p], idx).box
            /\ ret' = [ret EXCEPT ![p] = [item |-> r.item, err |-> r.err]]
            /\ putLog' = CASE call[p].op = "Put" /\ ok -> Append(putLog, call[p].arg)
                           [] call[p].op = "Clean"     -> <<>>
                           [] OTHER                    -> putLog
            /\ getLog' = CASE call[p].op = "Get" /\ ok -> Append(getLog, r.item)
                           [] call[p].op = "Clean"     -> <<>>
                           [] OTHER                    -> getLog
            /\ panicked' = (r.err = Panic)
    /\ pc' = [pc EXCEPT ![p] = "unlock"]
    /\ UNCHANGED <<heap, res, mixed, grows, oracle, args, res2, getLog2, mu, call>>

\* a mutant of cUnlock: a call that got an error returns without unlocking
cUnlockOnSuccessOnly(p) ==
    /\ ~panicked
    /\ pc[p] = "unlock"
    /\ mu' = (ret[p].err # ErrNone)
    /\ pc' = [pc EXCEPT ![p] = "return"]
    /\ UNCHANGED <<heap, box, res, putLog, getLog, mixed, grows, panicked, oracle, args,
                   twin, res2, getLog2, call, ret>>

\* c.mu.Unlock()
cUnlock(p) ==
    /\ ~panicked
    /\ pc[p] = "unlock"
    /\ mu' = FALSE
    /\ pc' = [pc EXCEPT ![p] = "return"]
    /\ UNCHANGED <<heap, box, res, putLog, getLog, mixed, grows, panicked, oracle, args,
                   twin, res2, getLog2, call, ret>>

\* return: the caller has the results, the goroutine is free for its next call
cReturn(p) ==
    /\ ~panicked
    /\ pc[p] = "return"
    /\ pc' = [pc EXCEPT ![p] = "idle"]
    /\ call' = [call EXCEPT ![p] = Idle]
    /\ ret' = [ret EXCEPT ![p] = NoRet]
    /\ UNCHANGED <<heap, box, res, putLog, getLog, mixed, grows, panicked, oracle, args,
                   twin, res2, getLog2, mu>>

ConcNext ==
    \E p \in Procs :
        \/ \E c \in Calls : cCall(p, c)
        \/ cLock(p)
        \/ cInner(p)
        \/ cUnlock(p)
        \/ cReturn(p)

SpecConc == ConcInit /\ [][ConcNext]_vars

\* NewConcurrent(fifo) for a queue built by NewFIFO itself, as the tests and the
\* example program wrap it; NewFIFO takes the capacity as it is given
WrapInit ==
    /\ box \in {NewFIFO(m, c) : m \in {0, 1}, c \in {0, 1}}
    /\ mu = FALSE
    /\ pc = [p \in Procs |-> "idle"]
    /\ call = [p \in Procs |-> Idle]
    /\ ret = [p \in Procs |-> NoRet]
    /\ res = NoCall
    /\ putLog = <<>>
    /\ getLog = <<>>
    /\ mixed = FALSE
    /\ grows = [n |-> 0, wrapped |-> 0]
    /\ panicked = FALSE
    /\ heap = <<>>
    /\ oracle = NoDraws
    /\ twin = box
    /\ res2 = NoCall
    /\ getLog2 = <<>>
    /\ args = <<>>

SpecWrap == WrapInit /\ [][ConcNext]_vars

-----------------------------------------------------------------------------
(* Engines built by New, with the options recorded in args. *)

NewInit ==
    /\ args \in OptLists(2)
    /\ box = New(args, Now)
    /\ res = NoCall
    /\ putLog = <<>>
    /\ getLog = <<>>
    /\ mixed = FALSE
    /\ grows = [n |-> 0, wrapped |-> 0]
    /\ panicked = FALSE
    /\ heap = <<>>
    /\ oracle = NoDraws
    /\ twin = NoCall
    /\ res2 = NoCall
    /\ getLog2 = <<>>
    /\ NoWrapper

NewNext ==
    \/ \E item \in Vals : Len(putLog) < FromPuts /\ DoPut(item)
    \/ FromCanDraw /\ DoGet
    \/ FromCanDraw /\ DoPeek
    \/ DoClean

SpecNew == NewInit /\ [][NewNext]_vars

-----------------------------------------------------------------------------
(* The stack over Go's memory.  A slice is a header [arr, len] over a backing
   array of heap; two slices with the same arr share their elements.  The
   caller holds a slice of its own in args: a slice literal or a snapshot. *)

\* a slot of heap that no slice points into
NoArray == <<-1>>

NoHeap == [id \in 1..MaxArrays |-> NoArray]

\* cap(s); arr = 0 is the slice without a backing array
Cap(h, s) == IF s.arr = 0 THEN 0 ELSE Len(h[s.arr])

\* the elements of slice s
View(h, s) == [i \in 1..s.len |-> h[s.arr][i]]

\* make([]T, n, c): a fresh backing array of c zero values
memMake(h, n, c) ==
    IF c = 0
    THEN [heap |-> h, slice |-> [arr |-> 0, len |-> 0]]
    ELSE LET id == CHOOSE i \in 1..MaxArrays :
                       h[i] = NoArray /\ \A j \in 1..(i - 1) : h[j] # NoArray
         IN  [heap  |-> [h EXCEPT ![id] = Make(c)],
              slice |-> [arr |-> id, len |-> n]]

\* copy(dst, src): the heap after the copy
memCopy(h, dst, src) ==
    IF dst.arr = 0
    THEN h
    ELSE [h EXCEPT ![dst.arr] =
            CopyAt(h[dst.arr], 0, SubSeq(View(h, src), 1, Min(dst.len, src.len)))]

\* append(s, item): in place while len(s) < cap(s), else into a fresh array of
\* twice the capacity
memAppend(h, s, item) ==
    IF s.len < Cap(h, s)
    THEN [heap  |-> [h EXCEPT ![s.arr][s.len + 1] = item],
          slice |-> [s EXCEPT !.len = s.len + 1]]
    ELSE LET c == IF Cap(h, s) = 0 THEN 1 ELSE growthFactor * Cap(h, s)
             m == memMake(h, s.len + 1, c)
         IN  [heap  |-> [m.heap EXCEPT ![m.slice.arr] =
                            CopyAt(Make(c), 0, Append(View(h, s), item))],
              slice |-> m.slice]

\* the garbage collector: arrays no slice of roots points into are freed
Collect(h, roots) ==
    [id \in 1..MaxArrays |-> IF \E r \in roots : r.arr = id THEN h[id] ELSE NoArray]

memNewLIFO(h, maxSize, capacity) ==
    LET m == memMake(h, 0, capacity)
    IN  [heap |-> m.heap,
         box  |-> [strategy |-> StrategyLIFO, items |-> m.slice, maxSize |-> maxSize]]

\* mutant of memNewLIFOFrom: the stack keeps the caller's slice
memNewLIFOFromShares(h, items, maxSize) ==
    [heap |-> h,
     box  |-> [strategy |-> StrategyLIFO,
               items    |-> items,
               maxSize  |-> IF maxSize # 0 /\ maxSize < items.len
                            THEN items.len ELSE maxSize]]

memNewLIFOFrom(h, items, maxSize) ==
    LET newItems == memMake(h, items.len, items.len)
    IN  [heap |-> memCopy(newItems.heap, newItems.slice, items),
         box  |-> [strategy |-> StrategyLIFO,
                   items    |-> newItems.slice,
                   maxSize  |-> IF maxSize # 0 /\ maxSize < items.len
                                THEN items.len ELSE maxSize]]

\* mutant of memLifoItems: the snapshot is the stack's own slice
memLifoItemsShares(h, b) == [heap |-> h, slice |-> b.items]

memLifoItems(h, b) ==
    LET items == memMake(h, b.items.len, b.items.len)
    IN  [heap |-> memCopy(items.heap, items.slice, b.items), slice |-> items.slice]

memNewLIFOFromBox(h, b) ==
    LET r == memLifoItems(h, b)
    IN  [heap |-> r.heap,
         box  |-> [strategy |-> StrategyLIFO, items |-> r.slice, maxSize |-> b.maxSize]]

memLifoPut(h, b, item) ==
    IF b.maxSize > 0 /\ b.items.len >= b.maxSize
    THEN [heap |-> h, box |-> b, item |-> zero, err |-> ErrBlackBoxFull]
    ELSE LET a == memAppend(h, b.items, item)
         IN  [heap |-> a.heap, box |-> [b EXCEPT !.items = a.slice],
              item |-> zero, err |-> ErrNone]

memLifoGet(h, b) ==
    IF b.items.len = 0
    THEN [heap |-> h, box |-> b, item |-> zero, err |-> ErrEmptyBlackBox]
    ELSE LET lastIdx == b.items.len - 1
         IN  [heap |-> h,
              box  |-> [b EXCEPT !.items.len = lastIdx],
              item |-> h[b.items.arr][lastIdx + 1],
              err  |-> ErrNone]

memLifoClean(h, b) ==
    [heap |-> h, box |-> [b EXCEPT !.items.len = 0], item |-> zero, err |-> ErrNone]

\* the slices the program holds: those of the two stacks and the caller's
Roots(b, t, a) ==
    {b.items} \cup (IF t = NoCall THEN {} ELSE {t.items})
              \cup (IF a = <<>> THEN {} ELSE {a})

\* the last operation of these runs and the object it was applied to
MemCalled(op, on, r) == [op |-> op, on |-> on, err |-> r.err]

MemInit ==
    /\ \E m \in {0, MemPuts} : \E c \in MemCaps :
         LET r == memNewLIFO(NoHeap, m, c)
         IN  heap = r.heap /\ box = r.box
    /\ res = NoCall
    /\ putLog = <<>>
    /\ getLog = <<>>
    /\ mixed = FALSE
    /\ grows = [n |-> 0, wrapped |-> 0]
    /\ panicked = FALSE
    /\ oracle = NoDraws
    /\ NoTwin
    /\ NoWrapper

\* one stack method applied to box (on = "box") or to twin (on = "twin")
MemApply(op, on, r) ==
    /\ box' = IF on = "box" THEN r.box ELSE box
    /\ twin' = IF on = "twin" THEN r.box ELSE twin
    /\ heap' = Collect(r.heap, Roots(box', twin', args))
    /\ res' = MemCalled(op, on, r)
    /\ UNCHANGED <<putLog, getLog, mixed, grows, panicked, oracle, args, res2, getLog2,
                   mu, pc, call, ret>>

MemPut(on, item) ==
    /\ on = "twin" => twin # NoCall
    /\ (IF on = "box" THEN box ELSE twin).items.len < MemPuts
    /\ MemApply("Put", on, memLifoPut(heap, IF on = "box" THEN box ELSE twin, item))

MemGet(on) ==
    /\ on = "twin" => twin # NoCall
    /\ MemApply("Get", on, memLifoGet(heap, IF on = "box" THEN box ELSE twin))

MemClean(on) ==
    /\ on = "twin" => twin # NoCall
    /\ MemApply("Clean", on, memLifoClean(heap, IF on = "box" THEN box ELSE twin))

\* the caller keeps a slice of its own: args = []T{...}
MemLiteral(data) ==
    /\ args = <<>>
    /\ LET m == memMake(heap, Len(data), Len(data))
       IN  /\ args' = m.slice
           /\ heap' = IF m.slice.arr = 0 THEN m.heap
                      ELSE [m.heap EXCEPT ![m.slice.arr] = data]
    /\ res' = [op |-> "literal", on |-> "data", err |-> ErrNone]
    /\ UNCHANGED <<box, twin, putLog, getLog, mixed, grows, panicked, oracle, res2,
                   getLog2, mu, pc, call, ret>>

\* args = box.Items()
MemItems ==
    /\ args = <<>>
    /\ LET r == memLifoItems(heap, box)
       IN  /\ args' = r.slice
           /\ heap' = Collect(r.heap, Roots(box, twin, args'))
    /\ res' = [op |-> "Items", on |-> "box", err |-> ErrNone]
    /\ putLog' = View(heap, box.items)
    /\ UNCHANGED <<box, twin, getLog, mixed, grows, panicked, oracle, res2,
                   getLog2, mu, pc, call, ret>>

\* args[i] = v: the caller writes into its slice
MemWrite(i, v) ==
    /\ args # <<>>
    /\ i < args.len
    /\ heap' = [heap EXCEPT ![args.arr][i + 1] = v]
    /\ res' = [op |-> "write", on |-> "data", err |-> ErrNone]
    /\ UNCHANGED <<box, twin, args, putLog, getLog, mixed, grows, panicked, oracle, res2,
                   getLog2, mu, pc, call, ret>>

\* twin = NewLIFOFrom(args, maxSize)
MemNewLIFOFrom(maxSize) ==
    /\ twin = NoCall
    /\ args # <<>>
    /\ LET r == memNewLIFOFrom(heap, args, maxSize)
       IN  /\ twin' = r.box
           /\ heap' = Collect(r.heap, Roots(box, twin', args))
    /\ res' = [op |-> "NewLIFOFrom", on |-> "data", err |-> ErrNone]
    /\ putLog' = View(heap, args)
    /\ UNCHANGED <<box, args, getLog, mixed, grows, panicked, oracle, res2,
                   getLog2, mu, pc, call, ret>>

\* twin = NewLIFOFromBox(box)
MemNewLIFOFromBox ==
    /\ twin = NoCall
    /\ LET r == memNewLIFOFromBox(heap, box)
       IN  /\ twin' = r.box
           /\ heap' = Collect(r.heap, Roots(box, twin', args))
    /\ res' = [op |-> "NewLIFOFromBox", on |-> "box", err |-> ErrNone]
    /\ putLog' = View(heap, box.items)
    /\ UNCHANGED <<box, args, getLog, mixed, grows, panicked, oracle, res2,
                   getLog2, mu, pc, call, ret>>

MemNext ==
    \/ \E on \in {"box", "twin"} : \E item \in Vals : MemPut(on, item)
    \/ \E on \in {"box", "twin"} : MemGet(on)
    \/ \E on \in {"box", "twin"} : MemClean(on)
    \/ \E data \in MemDatas : MemLiteral(data)
    \/ MemItems
    \/ \E i \in 0..(MaxData - 1) : \E v \in Vals : MemWrite(i, v)
    \/ \E m \in {0, 1} : MemNewLIFOFrom(m)
    \/ MemNewLIFOFromBox

SpecMem == MemInit /\ [][MemNext]_vars

----------------------------------------------------------------------------
(* Properties of one engine used by one caller. *)

IsPrefix(s, t) == Len(s) <= Len(t) /\ SubSeq(t, 1, Len(s)) = s

Reverse(s) == [i \in 1..Len(s) |-> s[Len(s) + 1 - i]]

\* the multiset of the elements of a sequence
BagOf(s) == [v \in {s[i] : i \in DOMAIN s} |-> Cardinality({i \in DOMAIN s : s[i] = v})]

\* what successive Gets return until the engine is empty (idx 0 is drawn each time)
RECURSIVE Drain(_)
Drain(b) ==
    LET r == Get(b, 0)
    IN  IF r.err # ErrNone THEN <<>> ELSE <<r.item>> \o Drain(r.box)

\* C1: on an unbounded queue (maxSize 0) of initial capacity >= 1 no Put fails,
\* the Gets return the items put, in the order of insertion, and once as many
\* Gets as Puts succeeded the queue is empty and a further Get returns
\* ErrEmptyBlackBox.
C1_FifoOrder ==
    (IsQueue(box) /\ box.maxSize = 0 /\ Len(box.items) >= 1) =>
        /\ (res.op = "Put" => res.err = ErrNone)
        /\ IsPrefix(getLog, putLog)
        /\ (Len(getLog) = Len(putLog) =>
                /\ getLog = putLog
                /\ IsEmpty(box)
                /\ Size(box) = 0
                /\ Get(box, 0).err = ErrEmptyBlackBox)

\* C1 witness: four Puts, then four Gets that returned them in order.
C1_Witness ==
    /\ IsQueue(box) /\ box.maxSize = 0 /\ ~mixed
    /\ res.op = "Get" /\ res.err = ErrNone
    /\ Len(putLog) = 4 /\ getLog = putLog
    /\ putLog[1] # putLog[2]

\* C2: once the queue has grown (also twice or more, also with the live range
\* wrapped around the buffer end when it grew), the items already returned
\* followed by the items that the later Gets return are exactly the items put, in
\* the order of insertion: none is lost, none is duplicated.
C2_GrowthKeepsOrder ==
    (IsQueue(box) /\ grows.n >= 1 /\ ~panicked) =>
        /\ getLog \o Drain(box) = putLog
        /\ Len(Drain(box)) = Size(box)
        /\ IsPrefix(getLog, putLog)

\* C2 witness: two growth events since the last Clean, the second with the live
\* range wrapped, and a Get after them.
C2_Witness ==
    /\ IsQueue(box) /\ grows.n >= 2 /\ grows.wrapped >= 1
    /\ Len(putLog) = 4 /\ Len(box.items) = 4
    /\ res.op = "Get" /\ res.err = ErrNone
    /\ Len(getLog) >= 2 /\ putLog[2] # putLog[3]

\* C3: on an unbounded stack, while no Put has followed a Get, no Put fails, the
\* Gets return the items put in reverse order of insertion, and once as many Gets
\* as Puts succeeded a further Get returns ErrEmptyBlackBox.
C3_LifoOrder ==
    (IsStack(box) /\ box.maxSize = 0 /\ ~mixed) =>
        /\ (res.op = "Put" => res.err = ErrNone)
        /\ IsPrefix(getLog, Reverse(putLog))
        /\ (Len(getLog) = Len(putLog) =>
                /\ getLog = Reverse(putLog)
                /\ IsEmpty(box)
                /\ Get(box, 0).err = ErrEmptyBlackBox)

\* C3 witness: four Puts, then four Gets that returned them in reverse order.
C3_Witness ==
    /\ IsStack(box) /\ box.maxSize = 0 /\ ~mixed
    /\ res.op = "Get" /\ res.err = ErrNone
    /\ Len(putLog) = 4 /\ getLog = Reverse(putLog)
    /\ putLog[1] # putLog[4]

\* C4: in a random pool, whatever the generator draws, the items returned so far
\* together with the items still in the pool are exactly the items put, as
\* multisets; after as many Gets as Puts the pool is empty.
C4_RandomConservation ==
    IsPool(box) =>
        /\ BagOf(putLog) = BagOf(getLog) (+) BagOf(box.items)
        /\ Len(putLog) = Len(getLog) + Size(box)
        /\ (res.op = "Get" /\ res.err = ErrNone => BagIn(res.item, BagOf(putLog)))
        /\ (Len(getLog) = Len(putLog) => IsEmpty(box) /\ Get(box, 0).err = ErrEmptyBlackBox)

\* C4 witness: a Get whose drawn index was the last index of a pool of three,
\* after an earlier Get.
C4_Witness ==
    /\ IsPool(box)
    /\ res.op = "Get" /\ res.err = ErrNone
    /\ Len(box.items) = 2 /\ res.idx = 2
    /\ Len(getLog) = 2
    /\ box.items[1] # box.items[2]

\* C6: in each engine with maxSize > 0, when maxSize items are present IsFull is
\* true, a Put returns ErrBlackBoxFull and leaves the size unchanged, and the Put
\* that follows a successful Get from the full engine succeeds.
C6_Bounding ==
    /\ []((MaxSize(box) > 0 /\ Size(box) >= MaxSize(box)) => IsFull(box))
    /\ [][(MaxSize(box) > 0 /\ Size(box) >= MaxSize(box) /\ res'.op = "Put") =>
            (res'.err = ErrBlackBoxFull /\ Size(box') = Size(box) /\ IsFull(box'))]_vars
    /\ [][(/\ MaxSize(box) > 0
           /\ res.op = "Get" /\ res.err = ErrNone
           /\ Size(box) = MaxSize(box) - 1
           /\ res'.op = "Put") =>
            (res'.err = ErrNone /\ Size(box') = Size(box) + 1)]_vars

\* C6 witness: a Put rejected by a full queue that more than maxSize items were
\* put into, Gets having made room in between.
C6_Witness ==
    /\ IsQueue(box) /\ MaxSize(box) = 2
    /\ res.op = "Put" /\ res.err = ErrBlackBoxFull
    /\ IsFull(box) /\ Size(box) = 2
    /\ Len(getLog) >= 1 /\ Len(putLog) = 3

\* C7: in each engine with no live item Get and Peek return the zero value and
\* ErrEmptyBlackBox, and no Peek, successful or not, changes the size.
C7_Emptiness ==
    /\ [][(Size(box) = 0 /\ res'.op \in {"Get", "Peek"}) =>
            (res'.err = ErrEmptyBlackBox /\ res'.item = zero)]_vars
    /\ [][res'.op = "Peek" => Size(box') = Size(box)]_vars

\* C7 witness: a Peek on a stack that was filled and emptied again.
C7_Witness ==
    /\ IsStack(box)
    /\ res.op = "Peek" /\ res.err = ErrEmptyBlackBox /\ res.item = zero
    /\ Size(box) = 0 /\ Len(getLog) >= 2

\* C8: a call that returns ErrBlackBoxFull or ErrEmptyBlackBox leaves the whole
\* engine (items, head, tail, size, capacity, maxSize) as it was; a rejected Put
\* does not grow the queue.
C8_NoPartialFailure ==
    [][res'.err \in {ErrBlackBoxFull, ErrEmptyBlackBox} => box' = box]_vars

\* C8 witness: a Put rejected by a queue whose buffer is completely full
\* (size = capacity, where an accepted Put would grow it) with head away from 0.
C8_Witness ==
    /\ IsQueue(box)
    /\ res.op = "Put" /\ res.err = ErrBlackBoxFull
    /\ box.size = Len(box.items) /\ box.head > 0

\* C9: a queue never works with zero slots: on an unbounded queue, whatever the
\* initial capacity (0 included), every Put succeeds, leaves a buffer of at
\* least one slot and the size counts the items put and not yet returned.
C9_ZeroCapacityUsable ==
    (IsQueue(box) /\ box.maxSize = 0) =>
        /\ ~panicked
        /\ (res.op = "Put" => (res.err = ErrNone /\ Len(box.items) >= 1))
        /\ Size(box) = Len(putLog) - Len(getLog)

\* C5: two random pools built with the same fixed seed and given the same calls
\* return the same items Get by Get (and answer every call alike).
C5_SeedDeterminism ==
    parseOptions(args).useSeed =>
        /\ getLog2 = getLog
        /\ res2 = res

\* C5 witness: two seeded pools after two Gets and a Peek, the last Get of an
\* index other than 0, that returned different items.
C5_Witness ==
    /\ parseOptions(args).useSeed
    /\ res.op = "Get" /\ res.err = ErrNone /\ res.idx > 0
    /\ Len(getLog) = 2 /\ getLog2 = getLog
    /\ getLog[1] # getLog[2]
    /\ Len(box.rng.hist) = 3

\* a goroutine is between c.mu.Lock() and c.mu.Unlock()
Holding(p) == pc[p] \in {"inner", "unlock"}

\* C10: however the goroutines interleave, at most one of them is between Lock
\* and Unlock, where the call on the wrapped engine is made, and the mutex is
\* held while it is: two calls on the engine never overlap.
C10_MutualExclusion ==
    /\ \A p \in Procs : \A q \in Procs : (Holding(p) /\ Holding(q)) => p = q
    /\ \A p \in Procs : Holding(p) => mu

\* C10 witness: a goroutine is in its call on the engine while another has
\* called the wrapper and waits in Lock.
C10_Witness ==
    \E p \in Procs : \E q \in Procs :
        /\ pc[p] = "inner" /\ call[p].op = "Get"
        /\ pc[q] = "lock" /\ call[q].op = "Put"
        /\ mu /\ Len(putLog) >= 1

\* C11: behind the wrapper, with goroutines putting and getting in any
\* interleaving on an unbounded engine, no Put returns an error, and the items
\* put since the last Clean are, as multisets, the items the successful Gets
\* returned plus the items still stored: none is lost, none is returned twice.
C11_NoLossNoDuplication ==
    (box.maxSize = 0 /\ ~panicked) =>
        /\ \A p \in Procs :
                (call[p].op = "Put" /\ pc[p] \in {"unlock", "return"}) =>
                    ret[p].err = ErrNone
        /\ BagOf(putLog) = BagOf(getLog) (+) BagOf(Drain(box))
        /\ Len(putLog) = Len(getLog) + Size(box)

\* C11 witness: two different items were put into an unbounded queue, which
\* grew; one goroutine's Get has returned one of them while the other
\* goroutine's Get waits for the mutex.
C11_Witness ==
    \E p \in Procs : \E q \in Procs :
        /\ IsQueue(box) /\ box.maxSize = 0
        /\ Len(putLog) = 2 /\ putLog[1] # putLog[2]
        /\ pc[p] = "unlock" /\ call[p].op = "Get" /\ ret[p].err = ErrNone
        /\ Len(getLog) = 1 /\ Size(box) = 1
        /\ pc[q] = "lock" /\ call[q].op = "Get"

\* C12: the mutex is held only by a goroutine that is between Lock and Unlock of
\* a wrapper call: a goroutine whose call has returned, with an error or without,
\* no longer holds it, and when no wrapper call is in progress the mutex is free.
C12_LockReleased ==
    /\ mu => \E p \in Procs : Holding(p)
    /\ (\A p \in Procs : pc[p] \in {"idle", "return"}) => ~mu

\* C12 witness: one goroutine's Put has returned ErrBlackBoxFull, the other's
\* Get has returned ErrEmptyBlackBox, and the mutex is free.
C12_Witness ==
    \E p \in Procs : \E q \in Procs :
        /\ pc[p] = "return" /\ call[p].op = "Put" /\ ret[p].err = ErrBlackBoxFull
        /\ pc[q] = "return" /\ call[q].op = "Get" /\ ret[q].err = ErrEmptyBlackBox
        /\ ~mu

\* C13: the engine behind the wrapper is always in the state of an engine that
\* received the same calls directly, one at a time in lock-acquisition order,
\* and every wrapper call returns the value and the error which that direct call
\* returns.
C13_WrapperTransparency ==
    /\ [](twin = box)
    /\ [][\A p \in Procs :
            (pc[p] = "inner" /\ pc'[p] = "unlock") =>
                \E idx \in Draws(twin, oracle) :
                    /\ twin' = Bare(twin, call[p], idx).box
                    /\ ret'[p].item = Bare(twin, call[p], idx).item
                    /\ ret'[p].err = Bare(twin, call[p], idx).err]_vars

\* C13 witness: a pool of maximum size 1 held the item 1; one goroutine's Put
\* was rejected as full and is about to return, and then the other goroutine's
\* Get returned the item.
C13_Witness ==
    \E p \in Procs : \E q \in Procs :
        /\ IsPool(box) /\ twin = box
        /\ pc[p] = "unlock" /\ call[p].op = "Get"
        /\ ret[p].err = ErrNone /\ ret[p].item = 1
        /\ putLog = <<1>> /\ getLog = <<1>>
        /\ pc[q] = "return" /\ call[q].op = "Put" /\ ret[q].err = ErrBlackBoxFull

\* C14: a Peek on a queue or stack that holds an item succeeds, leaves the whole
\* engine as it was and returns the item a Get would return next (the item at
\* head for the queue, the last element for the stack); a Peek or a Get that
\* immediately follows a successful Peek returns the same item.
C14_PeekIsNextGet ==
    /\ [][(res'.op = "Peek" /\ (IsQueue(box) \/ IsStack(box)) /\ Size(box) > 0) =>
            /\ res'.err = ErrNone
            /\ box' = box
            /\ Get(box', 0).err = ErrNone
            /\ res'.item = Get(box', 0).item
            /\ res'.item = IF IsQueue(box) THEN box.items[box.head + 1]
                                           ELSE box.items[Len(box.items)]]_vars
    /\ [][(/\ IsQueue(box) \/ IsStack(box)
           /\ res.op = "Peek" /\ res.err = ErrNone
           /\ res'.op \in {"Peek", "Get"}) =>
            (res'.err = ErrNone /\ res'.item = res.item)]_vars

\* C14 witness: a Peek returned the oldest item of a queue whose head is away
\* from 0 and whose newest item is a different one.
C14_Witness ==
    /\ IsQueue(box) /\ box.head > 0 /\ Size(box) >= 2
    /\ res.op = "Peek" /\ res.err = ErrNone
    /\ res.item = box.items[box.head + 1]
    /\ res.item # box.items[((box.tail + Len(box.items) - 1) % Len(box.items)) + 1]

\* C15: a Peek on a random pool that holds an item succeeds and returns an item
\* that is in the pool, the one at the drawn index; the stored items, their
\* order, the size and the maximum size are as before the call.
C15_RandomPeekFrame ==
    [][(res'.op = "Peek" /\ IsPool(box) /\ Size(box) > 0) =>
        /\ res'.err = ErrNone
        /\ \E i \in 1..Len(box.items) : box.items[i] = res'.item
        /\ res'.item = box.items[res'.idx + 1]
        /\ box'.items = box.items
        /\ Size(box') = Size(box)
        /\ MaxSize(box') = MaxSize(box)]_vars

\* C15 witness: a Peek on a pool of three items drew the last index and returned
\* an item that differs from the first.
C15_Witness ==
    /\ IsPool(box) /\ Size(box) = 3
    /\ res.op = "Peek" /\ res.err = ErrNone /\ res.idx = 2
    /\ res.item = box.items[3] /\ res.item # box.items[1]

\* C16: Clean, from whatever state, leaves each engine empty: Size is 0, IsEmpty
\* holds, Get and Peek return ErrEmptyBlackBox, the snapshot is empty and the
\* maximum size is kept; the queue has head and tail at 0 and as many slots as
\* before.  The items put and returned since the last Clean follow the engine's
\* order: the queue returns them in insertion order, the stack (while no Put
\* followed a Get) in reverse order, the pool as a multiset.
C16_Clean ==
    /\ [][res'.op = "Clean" =>
            /\ Size(box') = 0
            /\ IsEmpty(box')
            /\ Get(box', 0).err = ErrEmptyBlackBox
            /\ Peek(box', 0).err = ErrEmptyBlackBox
            /\ Items(box') = <<>>
            /\ MaxSize(box') = MaxSize(box)
            /\ IsQueue(box) =>
                    /\ box'.head = 0 /\ box'.tail = 0
                    /\ Len(box'.items) = Len(box.items)]_vars
    /\ [](IsQueue(box) => getLog \o Items(box) = putLog)
    /\ []((IsStack(box) /\ ~mixed) => getLog \o Reverse(Items(box)) = Reverse(putLog))
    /\ [](IsPool(box) => BagOf(getLog) (+) BagOf(Items(box)) = BagOf(putLog))

\* C16 witness: a queue that grew twice, so held three items or more, was
\* cleaned with its slots kept; the two different items put since were returned
\* in insertion order.
C16_Witness ==
    /\ IsQueue(box) /\ grows.n = 2 /\ Len(box.items) = 4
    /\ Len(putLog) = 2 /\ putLog[1] # putLog[2]
    /\ getLog = putLog
    /\ res.op = "Get" /\ res.err = ErrNone

\* C17 as claimed: a Clean of an empty engine leaves the engine's state equal to
\* the state before the call, and a second Clean changes nothing the first left.
C17_CleanEmptyIsNoOp ==
    /\ [][(res'.op = "Clean" /\ Size(box) = 0) => box' = box]_vars
    /\ [][res'.op = "Clean" => Clean(box') = box']_vars

\* C17 amended: a Clean of an empty engine leaves the size, the maximum size
\* and the number of slots as they were; the state of a stack or
\* pool is unchanged, that of a queue is unchanged except that head and tail
\* are 0 afterwards.  A second Clean changes nothing the first left.
C17_CleanIdempotent ==
    /\ [][(res'.op = "Clean" /\ Size(box) = 0) =>
            /\ Size(box') = Size(box)
            /\ MaxSize(box') = MaxSize(box)
            /\ Len(box'.items) = Len(box.items)
            /\ IF IsQueue(box)
                  THEN box' = [box EXCEPT !.head = 0, !.tail = 0]
                  ELSE box' = box]_vars
    /\ [][res'.op = "Clean" => Clean(box') = box']_vars

\* C17 witness: a Clean has left a queue of four slots, which had grown twice,
\* empty with head and tail at 0.
C17_Witness ==
    /\ IsQueue(box) /\ grows.n = 2 /\ Len(box.items) = 4
    /\ res.op = "Clean"
    /\ Size(box) = 0 /\ box.head = 0 /\ box.tail = 0
    /\ Clean(box) = box

\* C18: however the engine was built (empty, from a sequence, from another
\* engine), in every state reached by Put, Get, Peek and Clean an engine with
\* maxSize > 0 holds at most maxSize items, and an engine with maxSize 0 never
\* answers a Put with ErrBlackBoxFull.
C18_HardCap ==
    /\ MaxSize(box) > 0 => Size(box) <= MaxSize(box)
    /\ (MaxSize(box) = 0 /\ res.op = "Put") => res.err # ErrBlackBoxFull

\* C18 witness: a stack built from two items with WithMaxSize(1), so widened to
\* 2 and full, has rejected a Put.
C18_Witness ==
    /\ IsStack(box) /\ args = <<WithStrategy(StrategyLIFO), WithMaxSize(1)>>
    /\ MaxSize(box) = 2 /\ Size(box) = 2
    /\ Len(putLog) = 2 /\ getLog = <<>>
    /\ res.op = "Put" /\ res.err = ErrBlackBoxFull

\* C19: NewFrom(data, opts...) holds all of data, for each strategy; with
\* WithMaxSize(m), 0 < m < len(data), MaxSize() is len(data) and the engine is
\* full; with no WithMaxSize MaxSize() is 0; with m >= len(data) MaxSize() is m.
C19_NewFromWidens ==
    res.op = "NewFrom" =>
        LET cfg == parseOptions(args)
            n   == Len(putLog)
        IN  /\ Size(box) = n
            /\ IsQueue(box) => Drain(box) = putLog
            /\ IsStack(box) => Drain(box) = Reverse(putLog)
            /\ IsPool(box) => BagOf(Drain(box)) = BagOf(putLog)
            /\ (cfg.useMaxSize /\ 0 < cfg.maxSize /\ cfg.maxSize < n) =>
                    (MaxSize(box) = n /\ IsFull(box))
            /\ ~cfg.useMaxSize => MaxSize(box) = 0
            /\ (cfg.useMaxSize /\ cfg.maxSize >= n) => MaxSize(box) = cfg.maxSize

\* C19 witness: a stack built from two different items with WithMaxSize(1).
C19_Witness ==
    /\ res.op = "NewFrom"
    /\ args = <<WithStrategy(StrategyLIFO), WithMaxSize(1)>>
    /\ putLog = <<0, 1>>
    /\ IsStack(box) /\ Size(box) = 2 /\ MaxSize(box) = 2 /\ IsFull(box)

C22_DefensiveCopy ==
    [][twin # NoCall =>
         /\ res'.on = "twin" =>
              /\ View(heap', box'.items) = View(heap, box.items)
              /\ args # <<>> => View(heap', args') = View(heap, args)
         /\ res'.on \in {"box", "data"} =>
              View(heap', twin'.items) = View(heap, twin.items)]_vars

\* C22 witness: the stack built from the caller's slice <<1>> popped its item
\* and was then put a 0, which went into the stack's own array: the caller's
\* slice still reads <<1>>.
C22_Witness ==
    /\ twin # NoCall /\ args # <<>>
    /\ putLog = <<1>> /\ box.items.len = 0
    /\ twin.items.arr # args.arr
    /\ res.op = "Put" /\ res.on = "twin" /\ res.err = ErrNone
    /\ View(heap, twin.items) = <<0>>
    /\ View(heap, args) = <<1>>

\* C23: an engine built by NewFromBlackBox holds as many items as its source;
\* a stack built from a queue returns on its first Get the queue's most
\* recently inserted live item (the last one the queue would return), and a
\* queue built from a stack returns first the stack's bottom item (the last one
\* the stack would return): each conversion returns the source's items in the
\* reverse of the source's retrieval order.
C23_ConversionOrder ==
    twin # NoCall =>
        /\ Size(twin) = Size(box)
        /\ IsQueue(box) /\ IsStack(twin) /\ Size(box) > 0 =>
             /\ Get(twin, 0).item = Drain(box)[Size(box)]
             /\ ~mixed => Get(twin, 0).item = putLog[Len(putLog)]
             /\ Drain(twin) = Reverse(Drain(box))
        /\ IsStack(box) /\ IsQueue(twin) /\ Size(box) > 0 =>
             /\ Get(twin, 0).item = box.items[1]
             /\ Get(twin, 0).item = Drain(box)[Size(box)]
             /\ Drain(twin) = Reverse(Drain(box))

\* C23 witness: a queue built from a stack holding 1 at the bottom and 0 on
\* top; its first Get returns 1.
C23_Witness ==
    /\ twin # NoCall
    /\ IsStack(box) /\ box.items = <<1, 0>>
    /\ IsQueue(twin) /\ Get(twin, 0).item = 1 /\ Size(twin) = 2

\* C24: the snapshot of a queue has exactly Size() items; it lists the live
\* items from head on in insertion order, whether or not they wrap around the
\* end of the buffer, and equals what successive Gets would return; together
\* with the items already returned it is the sequence of items put.
C24_QueueSnapshot ==
    (IsQueue(box) /\ ~panicked) =>
        /\ Len(Items(box)) = Size(box)
        /\ Items(box) = Drain(box)
        /\ getLog \o Drain(box) = putLog
        /\ Size(box) > 0 =>
             /\ Items(box)[1] = box.items[box.head + 1]
             /\ Items(box)[Size(box)] =
                    box.items[((box.tail + Len(box.items) - 1) % Len(box.items)) + 1]

\* C24 witness: a queue whose two live items wrap around the end of the buffer
\* (head beyond tail): the snapshot lists the older one, at head, first.
C24_Witness ==
    /\ IsQueue(box) /\ ~panicked
    /\ Size(box) = 2 /\ box.head > box.tail
    /\ box.items[box.head + 1] = 1 /\ box.items[1] = 0
    /\ Items(box) = <<1, 0>>

C27_PositiveCapacity ==
    LET cfg == parseOptions(args)
        pos == SelectSeq(args, LAMBDA o : o.opt = "WithInitialCapacity" /\ o.v > 0)
    IN  /\ cfg.initialCapacity > 0
        /\ cfg.initialCapacity = IF pos = <<>> THEN defaultInitialCapacity
                                 ELSE pos[Len(pos)].v
        /\ IsQueue(box) =>
             /\ Len(box.items) >= cfg.initialCapacity
             /\ Len(box.items) >= 1
             /\ ~panicked

\* C27 witness: New was given WithInitialCapacity(0) for a queue; the queue got
\* the default 8 slots and a Put succeeded.
C27_Witness ==
    /\ args = <<WithStrategy(StrategyFIFO), WithInitialCapacity(0)>>
    /\ IsQueue(box) /\ Len(box.items) = defaultInitialCapacity
    /\ res.op = "Put" /\ res.err = ErrNone /\ Size(box) = 1

\* C28: whatever Puts, Gets, Peeks and Cleans were made since construction
\* (growth of the queue included), MaxSize() is the maximum size resolved from
\* the options and the engine is the one of the resolved strategy.
C28_FixedAtConstruction ==
    LET cfg == parseOptions(args)
    IN  /\ MaxSize(box) = cfg.maxSize
        /\ box.strategy = IF cfg.strategy \in {StrategyFIFO, StrategyLIFO}
                          THEN cfg.strategy ELSE StrategyRandom

\* C28 witness: a queue built with capacity 1 and no maximum size has grown
\* twice and was then cleaned: MaxSize() is still 0 and it is still a queue.
C28_Witness ==
    /\ args = <<WithStrategy(StrategyFIFO), WithInitialCapacity(1)>>
    /\ IsQueue(box) /\ grows.n = 2 /\ Len(box.items) = 4
    /\ res.op = "Clean"
    /\ MaxSize(box) = 0

\* C29: no call through the wrapper is stuck: a goroutine that has acquired the
\* lock can always take its next step (make the call on the engine, unlock) and
\* one that has unlocked can return, and while a call is in progress some
\* goroutine can take a step (no deadlock).
C29_NoCallStuck ==
    /\ \A p \in Procs :
         /\ pc[p] = "inner" => ENABLED cInner(p)
         /\ pc[p] = "unlock" => ENABLED cUnlock(p)
         /\ pc[p] = "return" => ENABLED cReturn(p)
    /\ (\E p \in Procs : pc[p] # "idle") => ENABLED ConcNext

\* C30: in every reachable state of a queue that has at least one slot (a queue
\* created with capacity >= 1, with or without maximum size), grown or not:
\* 0 <= head < capacity, 0 <= tail < capacity, 0 <= size <= capacity, and tail
\* is size slots after head, modulo the capacity.
C30_RingIndexes ==
    (IsQueue(box) /\ Len(box.items) >= 1) =>
        /\ ~panicked
        /\ 0 <= box.head /\ box.head < Len(box.items)
        /\ 0 <= box.tail /\ box.tail < Len(box.items)
        /\ 0 <= box.size /\ box.size <= Len(box.items)
        /\ box.tail = (box.head + box.size) % Len(box.items)

\* C30 witness: a queue of maximum size 3 created with 2 slots has grown to 3
\* slots, its maximum, and is full: the Put wrapped tail around to head.
C30_Witness ==
    /\ IsQueue(box) /\ MaxSize(box) = 3
    /\ grows.n = 1 /\ Len(box.items) = 3
    /\ box.size = 3 /\ box.tail = box.head
    /\ res.op = "Put" /\ res.err = ErrNone

\* C31: a Put that finds the queue's size equal to its capacity and is not
\* rejected as full leaves a buffer of twice the capacity, or of maxSize slots
\* when maxSize > 0 is smaller than that; the items that were live are at
\* positions 0..size-1 in the order Get would have returned them, head is 0
\* and the new capacity is greater than the size found, so that the item is
\* stored at position size and the Put succeeds.
C31_GrowthPostcondition ==
    [][(res'.op = "Put" /\ IsQueue(box) /\ box.size = Len(box.items)
            /\ res'.err # ErrBlackBoxFull) =>
         LET doubled == 2 * Len(box.items)
         IN  /\ Len(box'.items) = IF box.maxSize > 0 /\ box.maxSize < doubled
                                  THEN box.maxSize ELSE doubled
             /\ Len(box'.items) > box.size
             /\ res'.err = ErrNone
             /\ box'.head = 0
             /\ box'.tail = (box.size + 1) % Len(box'.items)
             /\ box'.size = box.size + 1
             /\ SubSeq(box'.items, 1, box.size) = Drain(box)
             /\ box'.items[box.size + 1] = res'.arg]_vars

\* C32: a successful Put on a queue with size < capacity leaves head and the
\* capacity as they were, writes the item at tail and nothing else, and advances
\* tail by one modulo the capacity; the capacity changes only in a successful
\* Put that found size = capacity; head changes only in a successful Get (one
\* forward, modulo the capacity), in a growing Put (to 0) and in Clean (to 0).
C32_GrowthOnlyWhenFull ==
    [][IsQueue(box) =>
         /\ (res'.op = "Put" /\ res'.err = ErrNone /\ box.size < Len(box.items)) =>
              /\ box'.head = box.head
              /\ Len(box'.items) = Len(box.items)
              /\ box'.items = [box.items EXCEPT ![box.tail + 1] = res'.arg]
              /\ box'.tail = (box.tail + 1) % Len(box.items)
              /\ box'.size = box.size + 1
         /\ Len(box'.items) # Len(box.items) =>
              /\ res'.op = "Put" /\ res'.err = ErrNone
              /\ box.size = Len(box.items)
         /\ box'.head # box.head =>
              \/ /\ res'.op = "Get" /\ res'.err = ErrNone
                 /\ box'.head = (box.head + 1) % Len(box.items)
              \/ /\ res'.op = "Put" /\ Len(box'.items) > Len(box.items)
                 /\ box'.head = 0
              \/ /\ res'.op = "Clean"
                 /\ box'.head = 0]_vars

\* C32 witness: a queue that never grew took a Put while its head was away
\* from 0 and a slot was free: the item went into the last slot and tail
\* wrapped around to 0.
C32_Witness ==
    /\ IsQueue(box) /\ grows.n = 0 /\ Len(box.items) = 2
    /\ res.op = "Put" /\ res.err = ErrNone /\ res.arg = 1
    /\ box.head = 1 /\ box.tail = 0 /\ box.size = 1
    /\ box.items = <<0, 1>>

\* C33: a queue with at least one slot and maxSize >= 0 refines the abstract
\* FIFO sequence that a successful Put appends to, a successful Get removes the
\* front of and Clean empties (the items put less as many as were returned):
\* the size slots read from head, modulo the capacity, are that sequence; a
\* Get or Peek returns its front, or ErrEmptyBlackBox when it is empty; a Put
\* is rejected exactly when the sequence has maxSize > 0 items.
C33_RefinesFifo ==
    (IsQueue(box) /\ Len(box.items) >= 1 /\ box.maxSize >= 0) =>
        LET abstract == SubSeq(putLog, Len(getLog) + 1, Len(putLog))
            live     == [i \in 1..box.size |->
                            box.items[((box.head + i - 1) % Len(box.items)) + 1]]
        IN  /\ ~panicked
            /\ Len(getLog) <= Len(putLog)
            /\ live = abstract
            /\ LET g == Get(box, 0)
                   p == Peek(box, 0)
               IN  IF abstract = <<>>
                   THEN g.err = ErrEmptyBlackBox /\ p.err = ErrEmptyBlackBox
                   ELSE /\ g.err = ErrNone /\ g.item = Head(abstract)
                        /\ p.err = ErrNone /\ p.item = Head(abstract)
            /\ (res.op = "Get" /\ res.err = ErrNone) => res.item = putLog[Len(getLog)]
            /\ (res.op = "Peek" /\ res.err = ErrNone) => res.item = Head(abstract)
            /\ (res.op = "Put" /\ res.err = ErrBlackBoxFull) =>
                    Len(abstract) = box.maxSize

\* C33 witness: Puts and Gets interleaved on a queue that grew while its live
\* items wrapped around the end of the buffer: after the growth the queue
\* returned the item 1 put second, and the item 0 put third is the front.
C33_Witness ==
    /\ IsQueue(box) /\ box.maxSize >= 0 /\ grows.wrapped >= 1
    /\ putLog = <<0, 1, 0, 1>> /\ getLog = <<0, 1>>
    /\ res.op = "Get" /\ res.item = 1
    /\ Peek(box, 0).item = 0

\* C34: in every reachable state of a queue with at least one slot, tail is
\* size slots after head modulo the capacity; so head = tail exactly when the
\* queue is empty or holds as many items as it has slots.
C34_TailIsHeadPlusSize ==
    (IsQueue(box) /\ Len(box.items) >= 1) =>
        /\ box.tail = (box.head + box.size) % Len(box.items)
        /\ (box.head = box.tail) <=> (box.size = 0 \/ box.size = Len(box.items))
        /\ box.size = Len(putLog) - Len(getLog)

\* C34 witness: a queue of two slots, both taken, with head = tail = 1 after a
\* Get and two Puts.
C34_Witness ==
    /\ IsQueue(box) /\ Len(box.items) = 2 /\ box.size = 2
    /\ box.head = 1 /\ box.tail = 1
    /\ Len(getLog) = 1
    /\ res.op = "Put" /\ res.err = ErrNone

\* C35 as stated: two seeded pools given the same Puts and Gets return the same
\* items Get by Get only if they were peeked alike (their generators made the
\* same draws).
C35_GetsAgreeOnlyIfSamePeeks ==
    (parseOptions(args).useSeed /\ getLog # <<>> /\ getLog2 = getLog) =>
        twin.rng.hist = box.rng.hist

\* C35 amended: a Peek of a pool that holds items advances its generator by one
\* draw and leaves the items alone (a Peek of an empty pool draws nothing); as
\* long as two seeded pools given the same Puts, Gets and Cleans were peeked
\* alike, they hold the same items and returned the same items Get by Get, and
\* they answer a call made on both alike.
C35_PeekDrawsOnce ==
    [][/\ (res2'.op = "Peek" /\ twin' # twin) =>
            /\ Len(twin.items) > 0
            /\ res2'.err = ErrNone
            /\ twin' = [twin EXCEPT !.rng.hist = Append(@, Len(twin.items))]
       /\ (res2'.op = "Peek" /\ twin' = twin /\ res2' # res2) =>
            (Len(twin.items) = 0 /\ res2'.err = ErrEmptyBlackBox)
       /\ (parseOptions(args).useSeed /\ twin'.rng.hist = box'.rng.hist) =>
            /\ twin'.items = box'.items
            /\ getLog2' = getLog'
            /\ (res' # res => res2' = res')]_vars

\* C35 witness: the second pool was peeked once on its own, then both pools of
\* two items were asked for an item and returned different ones.
C35_Witness ==
    /\ parseOptions(args).useSeed
    /\ res.op = "Get" /\ res2.op = "Get"
    /\ box.rng.hist = <<2>> /\ twin.rng.hist = <<2, 2>>
    /\ Len(getLog) = 1 /\ Len(getLog2) = 1 /\ getLog2 # getLog

\* C36: with a maximum size M > 0 the wrapped engine never holds more than M
\* items however the goroutines' calls interleave, and the Puts that succeeded
\* (since construction or the last Clean) never number more than M plus the
\* Gets that succeeded.
C36_MaxSizeUnderWrapper ==
    MaxSize(box) > 0 =>
        /\ Size(box) <= MaxSize(box)
        /\ Len(putLog) <= MaxSize(box) + Len(getLog)
        /\ Size(box) = Len(putLog) - Len(getLog)

\* C36 witness: two goroutines called Put at the same time on a wrapped engine
\* of maximum size 1; one Put succeeded and the other got ErrBlackBoxFull.
C36_Witness ==
    /\ MaxSize(box) = 1 /\ Size(box) = 1
    /\ \A p \in Procs : call[p].op = "Put" /\ pc[p] = "return"
    /\ ret[1].err = ErrBlackBoxFull /\ ret[2].err = ErrNone
    /\ Len(putLog) = 1 /\ getLog = <<>>

\* C37: in every reachable state of a queue, every slot of the buffer outside
\* the live range (the size slots from head on, modulo the capacity) holds the
\* zero value.
C37_VacantSlotsZero ==
    IsQueue(box) =>
        LET live == {(box.head + i) % Len(box.items) : i \in 0..(box.size - 1)}
        IN  \A k \in 1..Len(box.items) : (k - 1) \notin live => box.items[k] = zero

\* C37 witness: a queue of two slots, both filled with a non-zero item, after a
\* Get: the consumed slot 0 is vacant and zero, slot 1 is live.
C37_Witness ==
    /\ IsQueue(box) /\ Len(box.items) = 2
    /\ putLog = <<1, 1>> /\ getLog = <<1>>
    /\ res.op = "Get" /\ res.item = 1
    /\ box.head = 1 /\ box.size = 1
    /\ box.items = <<zero, 1>>

\* C38: in the struct-based container, whatever strategy value it was configured
\* with, a Put that returns no error increases Size() by exactly one and leaves
\* the item among the items Get hands out; New of the interface-based version
\* builds a random pool when the strategy is missing or names no strategy.
C38_PutStoresForEveryStrategy ==
    [][(Len(putLog') = Len(putLog) + 1) =>
            /\ res'.op = "Put" /\ res'.err = ErrNone
            /\ BlackBoxSize(box') = BlackBoxSize(box) + 1
            /\ BagOf(BlackBoxHeld(box')) = BagOf(BlackBoxHeld(box)) (+) SetToBag({res'.arg})
            /\ IsPool(New(<<>>, Now))
            /\ \A s \in 0..3 : s \notin {StrategyFIFO, StrategyLIFO} =>
                    IsPool(New(<<WithStrategy(s)>>, Now))]_vars

\* C39: whenever Put invokes grow the buffer is completely full, size = capacity
\* >= 1 and head = tail, so grow takes its second branch (head >= tail) and
\* copies exactly size items: the capacity - head items from head to the end of
\* the buffer, then the tail items from its start.
C39_GrowFindsFullBuffer ==
    [][(res'.op = "Put" /\ IsQueue(box) /\ res'.err # ErrBlackBoxFull
            /\ box.size >= Len(box.items)) =>
         LET doubled     == Len(box.items) * growthFactor
             newCapacity == IF box.maxSize > 0 /\ doubled > box.maxSize
                            THEN box.maxSize ELSE doubled
             newItems    == Make(newCapacity)
             n           == CopyN(newItems, 0, Slice(box.items, box.head, Len(box.items)))
             m           == CopyN(newItems, n, Slice(box.items, 0, box.tail))
         IN  /\ box.size = Len(box.items)
             /\ Len(box.items) >= 1
             /\ box.head = box.tail
             /\ ~(box.head < box.tail)
             /\ n = Len(box.items) - box.head
             /\ m = box.tail
             /\ n + m = box.size
             /\ fifoGrow(box).items =
                    Slice(box.items, box.head, Len(box.items)) \o Slice(box.items, 0, box.tail)
                        \o Make(newCapacity - box.size)]_vars

====
